---- MODULE Spec2Model ----
(***************************************************************************)
(* Agent loop of AgentManager (src/src/main/agent/AgentManager.ts) with    *)
(* the planning protocol of AgentPlanner.ts.  One agent is modelled; the   *)
(* JavaScript event loop is modelled by making every synchronous run of a  *)
(* handler or of a loop task (from one await to the next) one action.      *)
(***************************************************************************)
EXTENDS Bags, FiniteSets, Integers, Naturals, Sequences, TLC

\* ------------------------------------------------------------------ bounds
\* config.maxIterations of the modelled run (types.ts default: 50)
MaxIterations == 3
\* config.maxIterations of an uninterrupted run, long enough for five
\* failures in a row
LongIterations == 6
\* config.maxIterations of the agent that replays a recipe
RecipeIterations == 1
\* longest recipe handed to executeRecipe
MaxRecipeLen == 2
\* config.maxRetries of the action executor (types.ts default: 3)
MaxRetries == 2
\* executeAction calls the caller makes one after the other
MaxCalls == 2
\* longest locator-group list of a click or type action
MaxGroups == 2
\* most candidates in one locator group
MaxCandidates == 2
\* longest action list of a stored skill
MaxSkillLen == 2
\* executeSkill calls made one after the other on the stored skill
MaxReplays == 2
\* minutes in a calendar day of the scheduler's clock (really 1440)
DayLen == 3
\* days in a week of the scheduler's clock (really 7)
WeekLen == 2
\* the last minute the scheduler's clock reaches
MaxNow == 6
\* recording sessions a RecordingManager is asked to start
MaxSessions == 2
\* most setInterval timers followed for one recording session
MaxTimers == 2
\* habit ids generateHabitId hands out
MaxHabits == 3
\* saveTrace calls made in all
MaxSaves == 12

\* ------------------------------------------------------------- data model
\* AgentStatus enum
Statuses == {"created", "planning", "executing", "paused",
             "completed", "failed", "stopped"}

TerminalStatuses == {"completed", "failed", "stopped"}

\* AgentAction values the planning oracle or a recipe can produce: two that
\* differ only in parameters and one that differs only in type.
Actions == {[type |-> "click", parameters |-> "#a"],
            [type |-> "click", parameters |-> "#b"],
            [type |-> "type",  parameters |-> "#a"]}

\* state.currentAction === null
NullAction == [type |-> "null", parameters |-> "null"]

\* ExecutionResult: the fields the loop and the give-up rules read
ExecutionResult(ok, a) == [success |-> ok, action |-> a]

\* reasons handed to failAgent
ReasonFiveFailed == "Last 5 actions failed - unable to make progress"
ReasonLoop == "Stuck in a loop - repeating the same action"
ReasonMaxIter == "Maximum iterations reached"
ReasonNoTab == "Tab not found"

VARIABLES
    status,         \* state.status
    iteration,      \* state.iteration
    maxIterations,  \* state.maxIterations
    actionHistory,  \* state.actionHistory
    currentAction,  \* state.currentAction
    error,          \* state.error ("" when unset)
    completedAt,    \* state.completedAt: "unset", or the call that recorded it
    result,         \* state.result: "unset", "undefined" (completeAgent without
                    \* a result) or "context" (the captured context snapshot)
    tasks,          \* bag of the loop / recipe tasks suspended at an await
    llmReady,       \* AgentPlanner.model !== null
    goalSignalled,  \* the oracle has answered goalAchieved: true
    oracleCalls,    \* how often the planning oracle (streamText) has been called
    lastCall,       \* "ok", or the public call that threw most recently
    \* ---- one executeAction call of AgentExecutor and its host
    execPc,         \* where the call is: "idle", "helper", "op", "pageLoad",
                    \* "retryWait", "returned"
    execAction,     \* its parameter `action`
    retryCount,     \* its parameter `retryCount`
    execPos,        \* <<i, k>>: the candidate a locator-group dispatch is at
    hostLog,        \* the Page Host calls made for this call, in order
    execResult,     \* what the call returned to its caller
    execCalls,      \* how many executeAction calls the caller has made
    \* ---- one executeSkill call of SkillsManager
    skill,          \* the stored skill: its actions and context.startUrl
    useCount,       \* skill.metadata.useCount
    hostAlwaysSucceeds, \* the page host of this run never fails an operation
    replayPc,       \* where the call is: "idle", "exec", "wait", "save",
                    \* "returned"
    continueOnError, \* options.continueOnError of the call: "true", "false"
                    \* or "missing"
    replayIndex,    \* the for-loop variable i (1-based)
    executedActions, \* the local executedActions
    lastError,      \* the local lastError ("missing": undefined)
    skillResult,    \* the SkillExecutionResult the call returned
    earlierResults, \* the options and results of the earlier executeSkill calls
    \* ---- what was recorded from the agent
    recipe,         \* the AgentRecipe saveRecipe built last
    newSkill,       \* the Skill createSkillFromAgent built last, and how its
                    \* saveSkill went: "saving", "stored" or "failed"
    \* ---- the managers beside the agent; NotConstructed where a
    \* specification does not follow the manager
    scheduler,      \* the HabitsScheduler and the habits it reads:
                    \*   isRunning, intervalId (!== null), liveTimers (setInterval
                    \*   timers created and not cleared), now (the clock: minutes
                    \*   since the first day began, UTC), and per stored habit
                    \*   schedule, lastSuggestionDate and, per day, the
                    \*   suggestion/autorun events emitted
    recorder,       \* the RecordingManager, per session id:
                    \*   session ("absent": not in sessions, "recording":
                    \*   isRecording, or "notRecording"), starting (startRecording
                    \*   awaits injectRecordingScript), polling
                    \*   (pollingIntervals.has(sessionId)), pollTimers (setInterval
                    \*   timers created and not cleared)
    habitsManager   \* the HabitsManager, per habit id:
                    \*   habits (the habits map: the alias, or NoHabit),
                    \*   habitFiles (the habits directory: the alias in the file),
                    \*   traces (the traces map: the cached list of traces, each
                    \*   its serial number, or NotCached), traceFiles (the traces
                    \*   directory), saved (saveTrace calls made);
                    \*   and habitCall, the saveHabit/updateHabit/deleteHabit call
                    \*   made last

\* the state of the executor call and of its host
execVars == <<execPc, execAction, retryCount, execPos, hostLog, execResult,
              execCalls>>

\* the state of the replay call
replayVars == <<skill, useCount, hostAlwaysSucceeds, replayPc, continueOnError,
                replayIndex, executedActions, lastError, skillResult,
                earlierResults>>

\* the recordings made from the agent
recordVars == <<recipe, newSkill>>

\* the managers beside the agent
managerVars == <<scheduler, recorder, habitsManager>>

vars == <<status, iteration, maxIterations, actionHistory, currentAction,
          error, completedAt, result, tasks, llmReady, goalSignalled, oracleCalls,
          lastCall,
          execVars, replayVars, recordVars, managerVars>>

\* the AgentState fields
agentVars == <<status, iteration, actionHistory, currentAction,
               error, completedAt, result>>

\* a lifecycle call returns normally or throws; the model remembers the
\* call whose exception the caller saw last, until a call returns normally
Returned == "ok"
Threw(op) == op

\* ------------------------------------------------------------------ tasks
\* a task suspended at an await: where it waits, its local `action`, and
\* for executeRecipe the actions the for-loop has not reached yet
Task(pc, a, rest) == [pc |-> pc, action |-> a, rest |-> rest]
LoopTask(pc, a) == Task(pc, a, <<>>)

One(t) == SetToBag({t})
NumTasks == BagCardinality(tasks)
LoopPcs == {"ctx", "plan", "exec", "wait"}
LoopTasks == {t \in BagToSet(tasks) : t.pc \in LoopPcs}
NumLoopTasks == BagCardinality([t \in LoopTasks |-> tasks[t]])

\* ---------------------------------------------------------- shouldGiveUp
RECURSIVE Every(_, _)
\* Array.prototype.every: cb[i] is what the callback does on element i
\* ("throw" when it throws, else "true"/"false"); elements are visited in
\* order and the visit stops at the first one that is not true.
Every(cb, i) ==
    IF i > Len(cb) THEN "true"
    ELSE IF cb[i] # "true" THEN cb[i]
    ELSE Every(cb, i + 1)

\* r.action.<field> === last3[0].action.<field>; reading a field of a null
\* action throws a TypeError
SameField(r, first, field) ==
    IF r.action = NullAction \/ first.action = NullAction THEN "throw"
    ELSE IF r.action[field] = first.action[field] THEN "true" ELSE "false"

Slice(h, n) == IF Len(h) <= n THEN h ELSE SubSeq(h, Len(h) - n + 1, Len(h))

AllFailed(s) == \A i \in 1..Len(s) : ~s[i].success

\* shouldGiveUp with the failure rule looking at the last 6 results
ShouldGiveUpSixFailures(h) ==
    LET recentActions == Slice(h, 6)
        last3 == Slice(h, 3)
        allSameType ==
            Every([i \in 1..Len(last3) |-> SameField(last3[i], last3[1], "type")], 1)
        allSameParams ==
            Every([i \in 1..Len(last3) |-> SameField(last3[i], last3[1], "parameters")], 1)
    IN  IF Len(recentActions) >= 6 /\ AllFailed(recentActions)
        THEN [shouldGiveUp |-> TRUE, reason |-> ReasonFiveFailed, throws |-> FALSE]
        ELSE IF Len(h) >= 3
        THEN IF allSameType = "throw" \/ allSameParams = "throw"
             THEN [shouldGiveUp |-> FALSE, reason |-> "", throws |-> TRUE]
             ELSE IF allSameType = "true" /\ allSameParams = "true"
             THEN [shouldGiveUp |-> TRUE, reason |-> ReasonLoop, throws |-> FALSE]
             ELSE [shouldGiveUp |-> FALSE, reason |-> "", throws |-> FALSE]
        ELSE [shouldGiveUp |-> FALSE, reason |-> "", throws |-> FALSE]

\* shouldGiveUp with the loop rule comparing the action types only
ShouldGiveUpTypeOnly(h) ==
    LET recentActions == Slice(h, 5)
        last3 == Slice(h, 3)
        allSameType ==
            Every([i \in 1..Len(last3) |-> SameField(last3[i], last3[1], "type")], 1)
    IN  IF Len(recentActions) >= 5 /\ AllFailed(recentActions)
        THEN [shouldGiveUp |-> TRUE, reason |-> ReasonFiveFailed, throws |-> FALSE]
        ELSE IF Len(h) >= 3
        THEN IF allSameType = "throw"
             THEN [shouldGiveUp |-> FALSE, reason |-> "", throws |-> TRUE]
             ELSE IF allSameType = "true"
             THEN [shouldGiveUp |-> TRUE, reason |-> ReasonLoop, throws |-> FALSE]
             ELSE [shouldGiveUp |-> FALSE, reason |-> "", throws |-> FALSE]
        ELSE [shouldGiveUp |-> FALSE, reason |-> "", throws |-> FALSE]

ShouldGiveUp(h) ==
    LET recentActions == Slice(h, 5)
        last3 == Slice(h, 3)
        allSameType ==
            Every([i \in 1..Len(last3) |-> SameField(last3[i], last3[1], "type")], 1)
        allSameParams ==
            Every([i \in 1..Len(last3) |-> SameField(last3[i], last3[1], "parameters")], 1)
    IN  IF Len(recentActions) >= 5 /\ AllFailed(recentActions)
        THEN [shouldGiveUp |-> TRUE, reason |-> ReasonFiveFailed, throws |-> FALSE]
        ELSE IF Len(h) >= 3
        THEN IF allSameType = "throw" \/ allSameParams = "throw"
             THEN [shouldGiveUp |-> FALSE, reason |-> "", throws |-> TRUE]
             ELSE IF allSameType = "true" /\ allSameParams = "true"
             THEN [shouldGiveUp |-> TRUE, reason |-> ReasonLoop, throws |-> FALSE]
             ELSE [shouldGiveUp |-> FALSE, reason |-> "", throws |-> FALSE]
        ELSE [shouldGiveUp |-> FALSE, reason |-> "", throws |-> FALSE]

\* ------------------------------------------------------- planning oracle
\* what the oracle's text can look like to parseResponse: whether the
\* stream could be read, whether JSON.parse accepts it, the typeof checks
\* of the three scalar fields, and the action object (NullAction: absent)
RawActions == Actions \cup {NullAction,
                            [type |-> "", parameters |-> "#a"],
                            [type |-> "click", parameters |-> ""]}

WellFormed(a) == [stream |-> TRUE, json |-> TRUE, reasoning |-> TRUE,
                  goalAchieved |-> "false", confidence |-> TRUE, action |-> a]

\* the oracle texts the model feeds to planNextAction: every well-formed
\* answer, and every way of breaking one of them in a single place
RawResponses ==
    {WellFormed(a) : a \in RawActions}
    \cup {[WellFormed(a) EXCEPT !.goalAchieved = g] :
             a \in {NullAction, CHOOSE x \in Actions : TRUE}, g \in {"true", "missing"}}
    \cup (LET w == WellFormed(CHOOSE x \in Actions : TRUE)
          IN  {[w EXCEPT !.stream = FALSE], [w EXCEPT !.json = FALSE],
               [w EXCEPT !.reasoning = FALSE], [w EXCEPT !.confidence = FALSE]})

PlanningResponse(a, achieved, conf, why) ==
    [action |-> a, goalAchieved |-> achieved, confidence |-> conf,
     reasoning |-> why]

\* parseAction throws on a missing type or a missing parameters object
ParseActionThrows(a) == a.type = "" \/ a.parameters = ""

ParseFailure == PlanningResponse(NullAction, FALSE, 0, "Failed to parse LLM response")

ParseResponse(raw) ==
    IF ~raw.json THEN ParseFailure
    ELSE IF ~raw.reasoning THEN ParseFailure
    ELSE IF raw.goalAchieved = "missing" THEN ParseFailure
    ELSE IF ~raw.confidence THEN ParseFailure
    ELSE IF raw.goalAchieved = "true"
         THEN PlanningResponse(NullAction, TRUE, 1, "ok")
    ELSE IF raw.action = NullAction THEN ParseFailure
    ELSE IF ParseActionThrows(raw.action) THEN ParseFailure
    ELSE PlanningResponse(raw.action, FALSE, 1, "ok")

\* planNextAction once the model is initialised: a stream error is caught
\* and answered with the zero-confidence response
PlanNextAction(raw) ==
    IF ~raw.stream
    THEN PlanningResponse(NullAction, FALSE, 0, "Planning failed")
    ELSE ParseResponse(raw)

\* ------------------------------------------------------------- lifecycle
\* what no step of the agent loop changes: the planner's model and the
\* iteration budget, fixed by construction, and the executor call and the
\* replay call that are followed step by step in specifications of their own
configVars == <<llmReady, maxIterations, execVars, replayVars, recordVars,
                managerVars>>

\* undefined, or a property that is absent
Missing == "missing"

\* an action without parameters object
NoParameters == [absent |-> TRUE]

\* the value of execAction before the first call
NoAction == [type |-> "none", parameters |-> NoParameters]

\* the value of a result variable while the call has not returned
NoResult == [returned |-> FALSE]

\* no executeAction call is being followed
ExecutorIdle ==
    /\ execPc = "idle"
    /\ execAction = NoAction
    /\ retryCount = 0
    /\ execPos = <<0, 0>>
    /\ hostLog = <<>>
    /\ execResult = NoResult
    /\ execCalls = 0

\* no executeSkill call is being followed on stored skill sk
ReplayIdle(sk, alwaysOk) ==
    /\ skill = sk
    /\ useCount = 0
    /\ hostAlwaysSucceeds = alwaysOk
    /\ replayPc = "idle"
    /\ continueOnError = Missing
    /\ replayIndex = 0
    /\ executedActions = <<>>
    /\ lastError = Missing
    /\ skillResult = NoResult
    /\ earlierResults = <<>>

\* nothing has been recorded from the agent
NoRecipe == [saved |-> FALSE]
NoSkill == [created |-> FALSE]
NothingRecorded ==
    /\ recipe = NoRecipe
    /\ newSkill = NoSkill

\* a manager no call of which is followed
NotConstructed == [constructed |-> FALSE]

\* the managers beside the agent are not followed
ManagersIdle ==
    /\ scheduler = NotConstructed
    /\ recorder = NotConstructed
    /\ habitsManager = NotConstructed

\* a stored skill without actions and without start URL
EmptySkill == [actions |-> <<>>, startUrl |-> Missing]

\* the agent of createAgent
NewAgent(m) ==
    /\ status = "created"
    /\ iteration = 0
    /\ maxIterations = m
    /\ actionHistory = <<>>
    /\ currentAction = NullAction
    /\ error = ""
    /\ completedAt = "unset"
    /\ result = "unset"
    /\ tasks = EmptyBag
    /\ llmReady \in BOOLEAN
    /\ goalSignalled = FALSE
    /\ oracleCalls = 0
    /\ lastCall = Returned

\* createAgent has run: the agent exists with status created
Created(m) ==
    /\ NewAgent(m)
    /\ ExecutorIdle
    /\ ReplayIdle(EmptySkill, FALSE)
    /\ NothingRecorded
    /\ ManagersIdle

Init == Created(MaxIterations)

FailAgent(reason) ==
    /\ status' = "failed"
    /\ completedAt' = "failAgent"
    /\ error' = reason

\* completeAgent recording the result without setting the status
CompleteAgentKeepingStatus(res) ==
    /\ UNCHANGED status
    /\ completedAt' = "completeAgent"
    /\ result' = res

CompleteAgent(res) ==
    /\ status' = "completed"
    /\ completedAt' = "completeAgent"
    /\ result' = res

\* the catch block of the loop body: st is state.status when it runs
CatchError(st, others) ==
    /\ actionHistory' = Append(actionHistory, ExecutionResult(FALSE, currentAction))
    /\ currentAction' = NullAction
    /\ status' = st
    /\ tasks' = others (+) One(LoopTask("wait", NullAction))
    /\ UNCHANGED <<error, completedAt>>

\* the loop task, instead of returning, waits and reads the condition again
TaskLingers(others) == tasks' = others (+) One(LoopTask("wait", NullAction))

\* runExecutionLoop returns: its task is gone, the others remain
TaskEnds(others) == tasks' = others

\* `state.iteration < state.maxIterations`, with <= for <
WithinBudgetLax(i, m) == i <= m

\* `state.iteration < state.maxIterations` of the while condition
WithinBudget(i, m) == i < m

\* evaluation of the while condition and, if it holds, the loop body up to
\* `await this.captureContext(tab)`; if it does not, the code after the loop.
\* st is state.status when the condition is read, others the other tasks.
LoopTop(st, others) ==
    IF st \notin {"stopped", "paused", "completed", "failed"}
       /\ WithinBudget(iteration, maxIterations)
    THEN /\ iteration' = iteration + 1
         /\ LET giveUpCheck == ShouldGiveUp(actionHistory)
            IN  IF giveUpCheck.throws
                THEN CatchError(st, others)
                ELSE IF giveUpCheck.shouldGiveUp
                THEN /\ FailAgent(giveUpCheck.reason)
                     /\ tasks' = others
                     /\ UNCHANGED <<actionHistory, currentAction>>
                ELSE /\ status' = "planning"
                     /\ tasks' = others (+) One(LoopTask("ctx", NullAction))
                     /\ UNCHANGED <<actionHistory, currentAction, error, completedAt>>
    ELSE /\ TaskEnds(others)
         /\ UNCHANGED <<iteration, actionHistory, currentAction>>
         /\ IF iteration >= maxIterations
            THEN FailAgent(ReasonMaxIter)
            ELSE /\ status' = st
                 /\ UNCHANGED <<error, completedAt>>

\* runExecutionLoop from its call to its first await; tabFound is whether
\* window.getTab(state.goal.tabId) returns a tab
RunExecutionLoop(st, others, tabFound) ==
    IF ~tabFound
    THEN /\ FailAgent(ReasonNoTab)
         /\ tasks' = others
         /\ UNCHANGED <<iteration, actionHistory, currentAction>>
    ELSE LoopTop(st, others)

\* startAgent without its status check against terminal statuses
StartAllowedLax(st) == st \in {"created", "paused", "completed"}

\* the status check of startAgent
StartAllowed(st) == st \in {"created", "paused"}

StartAgent(tabFound) ==
    /\ IF ~StartAllowed(status)
       THEN /\ lastCall' = Threw("start")
            /\ UNCHANGED <<agentVars, tasks>>
       ELSE /\ lastCall' = Returned
            /\ RunExecutionLoop("planning", tasks, tabFound)
            /\ UNCHANGED result
    /\ UNCHANGED <<configVars, goalSignalled, oracleCalls>>

\* pauseAgent dropping the loop tasks whose action is in flight
PauseAgentCancelling ==
    /\ IF status \notin {"planning", "executing"}
       THEN /\ lastCall' = Threw("pause")
            /\ UNCHANGED <<status, tasks>>
       ELSE /\ lastCall' = Returned
            /\ status' = "paused"
            /\ tasks' = [t \in {u \in BagToSet(tasks) : u.pc # "exec"} |-> tasks[t]]
    /\ UNCHANGED <<iteration, actionHistory, currentAction, error,
                   completedAt, result, configVars, goalSignalled, oracleCalls>>

\* pauseAgent accepting an agent that was never started
PauseAllowedLax(st) == st \in {"planning", "executing", "created"}

\* the status check of pauseAgent
PauseAllowed(st) == st \in {"planning", "executing"}

PauseAgent ==
    /\ IF ~PauseAllowed(status)
       THEN /\ lastCall' = Threw("pause")
            /\ UNCHANGED status
       ELSE /\ lastCall' = Returned
            /\ status' = "paused"
    /\ UNCHANGED <<iteration, actionHistory, currentAction, error,
                   completedAt, result, tasks, configVars, goalSignalled, oracleCalls>>

\* the status check of resumeAgent
ResumeAllowed(st) == st = "paused"

ResumeAgent(tabFound) ==
    /\ IF ~ResumeAllowed(status)
       THEN /\ lastCall' = Threw("resume")
            /\ UNCHANGED <<agentVars, tasks>>
       ELSE /\ lastCall' = Returned
            /\ RunExecutionLoop("planning", tasks, tabFound)
            /\ UNCHANGED result
    /\ UNCHANGED <<configVars, goalSignalled, oracleCalls>>

StopAgent ==
    /\ status' = "stopped"
    /\ completedAt' = "stopAgent"
    /\ lastCall' = Returned
    /\ UNCHANGED <<iteration, actionHistory, currentAction, error, result,
                   tasks, configVars, goalSignalled, oracleCalls>>

\* ------------------------------------------------------------- loop task
\* `await this.captureContext(tab)` returns (ok) or throws; when it
\* returns, planNextAction is called and throws at once if no model is set
CaptureDone(t, ok) ==
    /\ t \in BagToSet(tasks) /\ t.pc = "ctx"
    /\ LET others == tasks (-) One(t)
       IN  IF ok /\ llmReady
           THEN /\ tasks' = others (+) One(LoopTask("plan", NullAction))
                /\ UNCHANGED <<status, actionHistory, currentAction,
                               error, completedAt>>
           ELSE CatchError(status, others)
    /\ oracleCalls' = IF ok /\ llmReady THEN oracleCalls + 1 ELSE oracleCalls
    /\ UNCHANGED <<iteration, result, configVars, goalSignalled, lastCall>>

\* `await this.planner.planNextAction(...)` returns for oracle text raw
PlanDone(t, raw) ==
    /\ t \in BagToSet(tasks) /\ t.pc = "plan"
    /\ LET others == tasks (-) One(t)
           planningResponse == PlanNextAction(raw)
       IN  /\ UNCHANGED oracleCalls
           /\ goalSignalled' = (goalSignalled \/ planningResponse.goalAchieved)
           /\ IF planningResponse.goalAchieved \/ planningResponse.action = NullAction
              THEN /\ CompleteAgent("context")
                   /\ tasks' = others
                   /\ UNCHANGED <<currentAction, error>>
              ELSE /\ currentAction' = planningResponse.action
                   /\ status' = "executing"
                   /\ tasks' = others (+) One(LoopTask("exec", planningResponse.action))
                   /\ UNCHANGED <<completedAt, result, error>>
    /\ UNCHANGED <<iteration, actionHistory, configVars, lastCall>>

\* state.actionHistory.push(result), done only for a successful result
PushIfSucceeded(h, r) == IF r.success THEN Append(h, r) ELSE h

\* state.actionHistory.push(result), writing over the last entry
PushOverLast(h, r) == IF h = <<>> THEN <<r>> ELSE [h EXCEPT ![Len(h)] = r]

\* what the agent loop does with the result: state.actionHistory.push(result)
Push(h, r) == Append(h, r)

\* `await this.executor.executeAction(action, tab)` returns its result
ExecDone(t, ok) ==
    /\ t \in BagToSet(tasks) /\ t.pc = "exec"
    /\ actionHistory' = Push(actionHistory, ExecutionResult(ok, t.action))
    /\ currentAction' = NullAction
    /\ tasks' = (tasks (-) One(t)) (+) One(LoopTask("wait", NullAction))
    /\ UNCHANGED <<status, iteration, error, completedAt, result, configVars,
                   goalSignalled, oracleCalls, lastCall>>

\* `await this.wait(...)` is over: the inter-action delay at the end of the
\* try block or the 2000 ms of the catch block; the while condition is next
WaitDone(t) ==
    /\ t \in BagToSet(tasks) /\ t.pc = "wait"
    /\ LoopTop(status, tasks (-) One(t))
    /\ UNCHANGED <<result, configVars, goalSignalled, oracleCalls, lastCall>>

\* ----------------------------------------------------------- recipe replay
Recipes == UNION {[1..n -> Actions] : n \in 0..MaxRecipeLen}

\* the replay going on while the agent is paused
ReplayBreaksOnStop(st) == st = "stopped"

\* `if (state.status === STOPPED || state.status === PAUSED) break;`
ReplayBreaks(st) == st \in {"stopped", "paused"}

\* one evaluation of the for-loop head of executeRecipe and, if an action is
\* left and the agent is neither stopped nor paused, the body up to
\* `await this.executor.executeAction`; otherwise completeAgent(agentId)
RecipeNext(st, rest, others) ==
    IF rest = <<>> \/ ReplayBreaks(st)
    THEN /\ CompleteAgent("undefined")
         /\ tasks' = others
         /\ UNCHANGED <<currentAction, error>>
    ELSE /\ currentAction' = Head(rest)
         /\ status' = st
         /\ tasks' = others (+) One(Task("rexec", Head(rest), Tail(rest)))
         /\ UNCHANGED <<completedAt, result, error>>

\* loadRecipe: createAgent (the agent of Created), then executeRecipe up to
\* its first await
LoadRecipe(actions, tabFound) ==
    /\ status = "created"
    /\ lastCall' = Returned
    /\ IF ~tabFound
       THEN /\ FailAgent(ReasonNoTab)
            /\ UNCHANGED <<currentAction, result, tasks>>
       ELSE RecipeNext("executing", actions, tasks)
    /\ UNCHANGED <<iteration, actionHistory, configVars, goalSignalled, oracleCalls>>

\* `await this.executor.executeAction(action, tab)` of executeRecipe returns
RecipeExecDone(t, ok) ==
    /\ t \in BagToSet(tasks) /\ t.pc = "rexec"
    /\ actionHistory' = Append(actionHistory, ExecutionResult(ok, t.action))
    /\ currentAction' = NullAction
    /\ tasks' = (tasks (-) One(t)) (+) One(Task("rdelay", NullAction, t.rest))
    /\ UNCHANGED <<status, iteration, error, completedAt, result, configVars,
                   goalSignalled, oracleCalls, lastCall>>

\* `await this.wait(this.config.actionDelay)` of executeRecipe is over
RecipeDelayDone(t) ==
    /\ t \in BagToSet(tasks) /\ t.pc = "rdelay"
    /\ RecipeNext(status, t.rest, tasks (-) One(t))
    /\ UNCHANGED <<iteration, actionHistory, configVars, goalSignalled, oracleCalls, lastCall>>

\* ------------------------------------------------------- action executor
\* The executor is followed for the action types whose required parameters
\* validateAction or the dispatch reads: navigate, click, type, select,
\* hover, get_text, get_attribute, wait_for_element, complete, and a type
\* the ActionType enum does not have.
SelectorTypes == {"click", "type", "select", "hover", "get_text",
                  "get_attribute", "wait_for_element"}

KnownTypes == SelectorTypes \cup {"navigate", "complete"}

\* the types validateAction accepts without reading a parameter
UnvalidatedTypes == {"hover", "get_text", "get_attribute", "complete"}

\* a locator group of n candidates: candidate k of group i is <<i, k>>
Group(i, n) == [k \in 1..n |-> <<i, k>>]

\* parameters.selectors: the locator-group lists (a group may be empty)
LocatorLists ==
    UNION {{[i \in 1..n |-> Group(i, lens[i])] : lens \in [1..n -> 0..MaxCandidates]}
              : n \in 1..MaxGroups}

\* the parameters object of an action; selectors is <<>> when the action
\* carries no locator-group list
Parameters(sel, text, value, url, groups) ==
    [selector |-> sel, text |-> text, value |-> value, url |-> url,
     selectors |-> groups]

\* the parameters object of a complete action
CompleteParameters(reason, data) == [reason |-> reason, data |-> data]

ExecAction(type, params) == [type |-> type, parameters |-> params]

\* a string parameter: given, empty, or absent
StringParams == {"given", "", Missing}

\* the actions handed to executeAction
ExecActions ==
    {ExecAction("navigate", Parameters(Missing, Missing, Missing, u, <<>>))
         : u \in StringParams}
    \cup {ExecAction("click", Parameters(sel, Missing, Missing, Missing, g))
         : sel \in StringParams, g \in LocatorLists \cup {<<>>}}
    \cup {ExecAction("type", Parameters(sel, txt, Missing, Missing, g))
         : sel \in StringParams, txt \in StringParams,
           g \in {<<>>, <<Group(1, 1)>>}}
    \cup {ExecAction("select", Parameters(sel, Missing, v, Missing, <<>>))
         : sel \in StringParams, v \in {"given", Missing}}
    \cup {ExecAction(t, Parameters(sel, Missing, Missing, Missing, <<>>))
         : t \in {"hover", "get_text", "get_attribute", "wait_for_element"},
           sel \in StringParams}
    \cup {ExecAction("complete", CompleteParameters("done", d))
         : d \in {"given", Missing}}
    \cup {          ExecAction("bogus", Parameters("given", Missing, Missing, Missing, <<>>))}
    \cup {ExecAction(t, NoParameters) : t \in {"click", "hover", "complete"}}

\* !v for a string or undefined v
Falsy(v) == v = "" \/ v = Missing

\* what a function does: return a value or throw an Error with a message
Returns(v) == [kind |-> "return", value |-> v]
Throws(msg) == [kind |-> "throw", message |-> msg]

\* reading a property of action.parameters when there is no parameters object
TypeErrorMessage == "Cannot read properties of undefined"

\* validateAction: returns null ("null") or the validation error, or throws
\* when it reads a parameter of an action without parameters object
ValidateAction(a) ==
    IF a.type \in UnvalidatedTypes THEN Returns("null")
    ELSE IF a.type \notin KnownTypes THEN Returns("Unknown action type")
    ELSE IF a.parameters = NoParameters THEN Throws(TypeErrorMessage)
    ELSE IF a.type = "navigate"
    THEN IF Falsy(a.parameters.url)
         THEN Returns("URL is required for navigate action")
         ELSE Returns("null")
    ELSE IF Falsy(a.parameters.selector)
    THEN Returns("Selector is required")
    ELSE IF a.type = "type" /\ a.parameters.text = Missing
    THEN Returns("Text is required for type action")
    ELSE IF a.type = "select" /\ Falsy(a.parameters.value)
    THEN Returns("Value is required for select action")
    ELSE Returns("null")

\* ExecutionResult as executeAction returns it
ActionResult(ok, a, err) == [success |-> ok, action |-> a, error |-> err]

CreateErrorResult(a, err) == ActionResult(FALSE, a, err)

\* the result of executeComplete, its data without the action's reason
CompleteResultWithoutReason(a) ==
    [success |-> TRUE, action |-> a, error |-> Missing,
     data |-> [reason |-> Missing, result |-> a.parameters.data]]

\* the result of executeComplete
CompleteResult(a) ==
    [success |-> TRUE, action |-> a, error |-> Missing,
     data |-> [reason |-> a.parameters.reason, result |-> a.parameters.data]]

\* what one Page Host call does: succeed, report failure with or without an
\* error text, throw an Error, or answer null (Tab.runJs on a page it cannot
\* script)
HostOutcomes == {"ok", "fail", "failQuiet", "throw", "null"}

\* String(error) of an Error: its name, and its message when it has one
ErrorToString(name, msg) == IF msg = "" THEN name ELSE name \o ": " \o msg

\* `result.error || "<Op> failed"` of a dispatch whose host call reported
\* failure with error text err
HostErrorRaw(err, fallback) == err

HostError(err, fallback) == IF err # "" THEN err ELSE fallback

\* an entry of hostLog: the kind of call, the candidate it was made for
\* (<<0, 0>> when the dispatch uses parameters.selector or none), the attempt
\* it belongs to and whether the host reported success
HostCall(call, pos, rc, ok) ==
    [call |-> call, selector |-> pos, attempt |-> rc, success |-> ok]

\* `retryCount < this.config.maxRetries`, with <= for <
RetryAllowedOnceMore(rc) == rc <= MaxRetries

\* `retryCount < this.config.maxRetries`
RetryAllowed(rc) == rc < MaxRetries

\* where an executeAction call goes next
Continue(pc, rc, res) ==
    /\ execPc' = pc
    /\ retryCount' = rc
    /\ execResult' = res

\* the end of the try block of attempt rc with dispatch result r: wait and
\* retry, or return r
FinishAttempt(rc, r) ==
    IF ~r.success /\ RetryAllowed(rc)
    THEN Continue("retryWait", rc, NoResult)
    ELSE Continue("returned", rc, r)

\* the catch block of attempt rc, entered with an Error of message msg
CatchAttempt(a, rc, msg) ==
    IF RetryAllowed(rc)
    THEN Continue("retryWait", rc, NoResult)
    ELSE Continue("returned", rc, CreateErrorResult(a, msg))

\* executeAction(action, tab, rc) treating a validation error like a failed
\* dispatch, which is retried
EnterExecuteActionRetrying(a, rc) ==
    LET validation == ValidateAction(a)
    IN  IF validation.kind = "throw"
        THEN CatchAttempt(a, rc, validation.message)
        ELSE IF validation.value # "null"
        THEN FinishAttempt(rc, CreateErrorResult(a, validation.value))
        ELSE IF a.type = "navigate"
        THEN Continue("op", rc, NoResult)
        ELSE IF a.type = "complete"
        THEN IF a.parameters = NoParameters
             THEN CatchAttempt(a, rc, TypeErrorMessage)
             ELSE FinishAttempt(rc, CompleteResult(a))
        ELSE Continue("helper", rc, NoResult)

\* executeAction(action, tab, rc) from its entry to its first await, or to
\* its return when it makes none
EnterExecuteAction(a, rc) ==
    LET validation == ValidateAction(a)
    IN  IF validation.kind = "throw"
        THEN CatchAttempt(a, rc, validation.message)
        ELSE IF validation.value # "null"
        THEN Continue("returned", rc, CreateErrorResult(a, validation.value))
        ELSE IF a.type = "navigate"
        THEN Continue("op", rc, NoResult)
        ELSE IF a.type = "complete"
        THEN IF a.parameters = NoParameters
             THEN CatchAttempt(a, rc, TypeErrorMessage)
             ELSE FinishAttempt(rc, CompleteResult(a))
        ELSE Continue("helper", rc, NoResult)

\* the action carries a locator-group list that executeClick / executeType
\* resolves candidate by candidate
HasLocatorList(a) ==
    /\ a.type \in {"click", "type"}
    /\ a.parameters # NoParameters
    /\ Len(a.parameters.selectors) > 0

\* the candidates of the list that come after position pos, in the order of
\* the two nested for-loops (<<0, 0>>: before the first)
After(groups, pos) ==
    {q \in UNION {{<<i, k>> : k \in 1..Len(groups[i])} : i \in 1..Len(groups)} :
        \/ q[1] > pos[1]
        \/ q[1] = pos[1] /\ q[2] > pos[2]}

\* the first of a non-empty set of positions in loop order
First(ps) ==
    CHOOSE q \in ps : \A r \in ps : q[1] < r[1] \/ (q[1] = r[1] /\ q[2] <= r[2])

\* the error text of a dispatch whose host call reported failure without one
Fallback(type) ==
    CASE type = "click" -> "Click failed"
      [] type = "type" -> "Type failed"
      [] type = "select" -> "Select failed"
      [] type = "hover" -> "Hover failed"
      [] type = "get_text" -> "Get text failed"
      [] type = "get_attribute" -> "Get attribute failed"
      [] OTHER -> "Element not found within timeout"

\* `if (result.success)` on the answer of a candidate's host call, never true
CandidateNeverEnds(outcome) == FALSE

\* `if (result.success)` on the answer of a candidate's host call
CandidateEnds(outcome) == outcome = "ok"

\* no candidate of the locator-group list is left, and the dispatch goes on
\* with parameters.selector
ListExhaustedFallingBack(a, rc) ==
    /\ Continue("op", rc, NoResult)
    /\ execPos' = <<0, 0>>

\* no candidate of the locator-group list is left: the code after the two
\* for-loops
ListExhausted(a, rc) ==
    /\ FinishAttempt(rc, CreateErrorResult(a, "All selector strategies failed"))
    /\ UNCHANGED execPos

\* the caller calls executeAction(action, tab); the first call may carry any
\* action, a later one carries the same action again
CallExecuteAction(a) ==
    /\ execPc = "idle"
    /\ execCalls < MaxCalls
    /\ execCalls > 0 => a = execAction
    /\ execCalls' = execCalls + 1
    /\ execAction' = a
    /\ hostLog' = <<>>
    /\ execPos' = <<0, 0>>
    /\ EnterExecuteAction(a, 0)
    /\ UNCHANGED <<agentVars, tasks, llmReady, maxIterations, goalSignalled, oracleCalls,
                   lastCall, replayVars, recordVars, managerVars>>

\* `await ensureHelperScript(tab)` is over (it never throws); the dispatch
\* goes on to its first operation on the page
HelperDone ==
    /\ execPc = "helper"
    /\ hostLog' = Append(hostLog, HostCall("helper", <<0, 0>>, retryCount, TRUE))
    /\ IF HasLocatorList(execAction)
       THEN LET candidates == After(execAction.parameters.selectors, <<0, 0>>)
            IN  IF candidates = {}
                THEN ListExhausted(execAction, retryCount)
                ELSE /\ Continue("op", retryCount, NoResult)
                     /\ execPos' = First(candidates)
       ELSE /\ UNCHANGED execPos
            /\ IF execAction.parameters = NoParameters
               THEN FinishAttempt(retryCount, CreateErrorResult(
                        execAction, ErrorToString("TypeError", TypeErrorMessage)))
               ELSE IF execAction.parameters.selector = Missing
               THEN FinishAttempt(retryCount, CreateErrorResult(
                        execAction, ErrorToString("TypeError", TypeErrorMessage)))
               ELSE Continue("op", retryCount, NoResult)
    /\ UNCHANGED <<execAction, execCalls>>
    /\ UNCHANGED <<agentVars, tasks, llmReady, maxIterations, goalSignalled, oracleCalls,
                   lastCall, replayVars, recordVars, managerVars>>

\* the host call of the dispatch returns or throws: tab.loadURL of navigate,
\* or tab.runJs of the operation on parameters.selector or on a candidate
OpDone(outcome) ==
    /\ execPc = "op"
    /\ execAction.type = "navigate" => outcome \in {"ok", "throw"}
    /\ LET a == execAction
           success == ActionResult(TRUE, a, Missing)
           called == Append(hostLog,
                            HostCall("op", execPos, retryCount, outcome = "ok"))
       IN  IF a.type = "navigate"
           THEN /\ UNCHANGED execPos
                /\ IF outcome = "ok"
                   THEN /\ hostLog' = called
                        /\ Continue("pageLoad", retryCount, NoResult)
                   ELSE /\ hostLog' = called
                        /\ FinishAttempt(retryCount, CreateErrorResult(
                               a, "Navigation failed: " \o "boom"))
           ELSE IF execPos = <<0, 0>>
           THEN /\ hostLog' = called
                /\ UNCHANGED execPos
                /\ FinishAttempt(retryCount,
                     CASE outcome = "ok" -> success
                       [] outcome = "fail" ->
                            CreateErrorResult(a, HostError("not found", Fallback(a.type)))
                       [] outcome = "failQuiet" ->
                            CreateErrorResult(a, HostError("", Fallback(a.type)))
                       [] outcome = "throw" ->
                            CreateErrorResult(a, ErrorToString("Error", "boom"))
                       [] OTHER ->
                            CreateErrorResult(a, ErrorToString("TypeError",
                                "Cannot read properties of null")))
           ELSE /\ hostLog' = called
                /\ IF CandidateEnds(outcome)
                   THEN /\ FinishAttempt(retryCount, success)
                        /\ UNCHANGED execPos
                   ELSE LET candidates == After(a.parameters.selectors, execPos)
                        IN  IF candidates = {}
                            THEN ListExhausted(a, retryCount)
                            ELSE /\ Continue("op", retryCount, NoResult)
                                 /\ execPos' = First(candidates)
    /\ UNCHANGED <<execAction, execCalls>>
    /\ UNCHANGED <<agentVars, tasks, llmReady, maxIterations, goalSignalled, oracleCalls,
                   lastCall, replayVars, recordVars, managerVars>>

\* `await waitForPageLoad(tab, 10000)` of executeNavigate is over: the page
\* finished loading (loaded), or the timeout of executeWithTimeout rejected
\* and waitForPageLoad caught it; either way ensureHelperScript and
\* captureScreenshot follow and the dispatch returns success
PageLoadDone(loaded) ==
    /\ execPc = "pageLoad"
    /\ hostLog' = hostLog \o <<HostCall("pageLoad", <<0, 0>>, retryCount, loaded),
                               HostCall("helper", <<0, 0>>, retryCount, TRUE)>>
    /\ FinishAttempt(retryCount, ActionResult(TRUE, execAction, Missing))
    /\ UNCHANGED <<execAction, execPos, execCalls>>
    /\ UNCHANGED <<agentVars, tasks, llmReady, maxIterations, goalSignalled, oracleCalls,
                   lastCall, replayVars, recordVars, managerVars>>

\* `await this.wait(1000)` before a retry is over: executeAction calls itself
\* with retryCount + 1
RetryWaitDone ==
    /\ execPc = "retryWait"
    /\ execPos' = <<0, 0>>
    /\ EnterExecuteAction(execAction, retryCount + 1)
    /\ UNCHANGED <<execAction, hostLog, execCalls>>
    /\ UNCHANGED <<agentVars, tasks, llmReady, maxIterations, goalSignalled, oracleCalls,
                   lastCall, replayVars, recordVars, managerVars>>

\* the caller's `await this.executor.executeAction(action, tab)` resumes with
\* the result and records it
ResultRecorded ==
    /\ execPc = "returned"
    /\ actionHistory' = Push(actionHistory, execResult)
    /\ execPc' = "idle"
    /\ UNCHANGED <<execAction, retryCount, execPos, hostLog, execResult, execCalls>>
    /\ UNCHANGED <<status, iteration, currentAction, error, completedAt, result,
                   tasks, llmReady, maxIterations, goalSignalled, oracleCalls, lastCall,
                   replayVars, recordVars, managerVars>>

\* ----------------------------------------------------------- skill replay
\* the actions a stored skill is made of: a valid click, a click without
\* selector, a valid hover
ReplayActions ==
    {ExecAction("click", Parameters(sel, Missing, Missing, Missing, <<>>))
         : sel \in {"given", ""}}
    \cup {ExecAction("hover", Parameters("given", Missing, Missing, Missing, <<>>))}

\* the stored skills: an action list, with or without context.startUrl
Skills ==
    {[actions |-> as, startUrl |-> u] :
        as \in UNION {[1..n -> ReplayActions] : n \in 0..MaxSkillLen},
        u \in {Missing, "given"}}

\* what executeAction can return for action a: the validation failure, or
\* else a success or, on a host that can fail, the failure of the last retry
ExecuteActionResults(a, alwaysOk) ==
    LET validation == ValidateAction(a)
    IN  IF validation.value # "null"
        THEN {CreateErrorResult(a, validation.value)}
        ELSE {ActionResult(TRUE, a, Missing)}
             \cup IF alwaysOk THEN {}
                  ELSE {CreateErrorResult(a, HostError("not found", Fallback(a.type)))}

SkillExecutionResult(ok, results, err) ==
    [success |-> ok, executedActions |-> results, error |-> err]

\* !lastError
NoError(err) == err = Missing \/ err = ""

\* `if (!options.continueOnError) break`, never breaking
StopsOnErrorNever(opt) == FALSE

\* `if (!options.continueOnError) break`
StopsOnError(opt) == opt # "true"

\* `executedActions.push(result)`, putting the result in front
RecordResultFirst(rs, r) == <<r>> \o rs

\* `executedActions.push(result)`
RecordResult(rs, r) == Append(rs, r)

\* `for (let i = 0; i < skill.actions.length; i++)`: the index after i
NextIndex(i) == i + 1

\* `const success = !lastError || options.continueOnError === true`
Succeeded(err, opt) == NoError(err) \/ opt = "true"

\* the replay leaves the for-loop: the metadata update up to
\* `await this.saveSkill(skill)`
LeaveLoop(i) ==
    /\ replayIndex' = i
    /\ useCount' = useCount + 1
    /\ replayPc' = "save"

\* the for-loop head with loop variable i (1-based) and, if an action is
\* left, the body up to `await this.executor.executeAction(action, tab)`
LoopHead(i) ==
    IF i <= Len(skill.actions)
    THEN /\ replayIndex' = i
         /\ replayPc' = "exec"
         /\ UNCHANGED useCount
    ELSE LeaveLoop(i)

\* executeSkill(skillId, options) from its call to its first await, or to
\* its end: the call throws when no tab is available, and `tab.navigate`,
\* which Tab does not have, throws into the outer catch when the skill
\* declares a start URL
ExecuteSkill(opt, tabFound) ==
    /\ replayPc \in {"idle", "returned", "threw"}
    /\ Len(earlierResults) + (IF replayPc = "idle" THEN 0 ELSE 1) < MaxReplays
    /\ earlierResults' = IF replayPc = "idle" THEN earlierResults
                         ELSE Append(earlierResults,
                                     [continueOnError |-> continueOnError,
                                      result |-> skillResult])
    /\ continueOnError' = opt
    /\ executedActions' = <<>>
    /\ lastError' = Missing
    /\ IF ~tabFound
       THEN /\ replayPc' = "threw"
            /\ skillResult' = NoResult
            /\ replayIndex' = 0
            /\ UNCHANGED useCount
       ELSE IF skill.startUrl # Missing
       THEN /\ replayPc' = "returned"
            /\ skillResult' = SkillExecutionResult(FALSE, <<>>,
                                  "tab.navigate is not a function")
            /\ replayIndex' = 0
            /\ UNCHANGED useCount
       ELSE /\ LoopHead(1)
            /\ skillResult' = NoResult
    /\ UNCHANGED <<skill, hostAlwaysSucceeds>>
    /\ UNCHANGED <<agentVars, tasks, llmReady, maxIterations, goalSignalled, oracleCalls,
                   lastCall, execVars, recordVars, managerVars>>

\* `await this.executor.executeAction(action, tab)` returns r
ActionReturned(r) ==
    /\ replayPc = "exec"
    /\ r \in ExecuteActionResults(skill.actions[replayIndex], hostAlwaysSucceeds)
    /\ executedActions' = RecordResult(executedActions, r)
    /\ IF ~r.success
       THEN /\ lastError' = r.error
            /\ IF StopsOnError(continueOnError)
               THEN LeaveLoop(replayIndex)
               ELSE /\ replayPc' = "wait"
                    /\ UNCHANGED <<replayIndex, useCount>>
       ELSE /\ replayPc' = "wait"
            /\ UNCHANGED <<lastError, replayIndex, useCount>>
    /\ UNCHANGED <<skill, hostAlwaysSucceeds, continueOnError, earlierResults,
                   skillResult>>
    /\ UNCHANGED <<agentVars, tasks, llmReady, maxIterations, goalSignalled, oracleCalls,
                   lastCall, execVars, recordVars, managerVars>>

\* `await this.wait(1000)` between two actions is over
ReplayWaitDone ==
    /\ replayPc = "wait"
    /\ LoopHead(NextIndex(replayIndex))
    /\ UNCHANGED <<skill, hostAlwaysSucceeds, continueOnError, executedActions,
                   lastError, earlierResults, skillResult>>
    /\ UNCHANGED <<agentVars, tasks, llmReady, maxIterations, goalSignalled, oracleCalls,
                   lastCall, execVars, recordVars, managerVars>>

\* `await this.saveSkill(skill)` returns (ok) or throws into the outer catch
SaveDone(ok) ==
    /\ replayPc = "save"
    /\ replayPc' = "returned"
    /\ skillResult' =
          IF ok
          THEN SkillExecutionResult(Succeeded(lastError, continueOnError),
                                    executedActions, lastError)
          ELSE SkillExecutionResult(FALSE, executedActions, "write failed")
    /\ UNCHANGED <<skill, useCount, hostAlwaysSucceeds, continueOnError,
                   replayIndex, executedActions, lastError, earlierResults>>
    /\ UNCHANGED <<agentVars, tasks, llmReady, maxIterations, goalSignalled, oracleCalls,
                   lastCall, execVars, recordVars, managerVars>>

\* ------------------------------------------------------------ recording
\* actionHistory.map((result) => result.action), without the filter
AllActions(h) == [i \in 1..Len(h) |-> h[i].action]

RECURSIVE SuccessfulActions(_)
\* actionHistory.filter((result) => result.success).map((result) => result.action)
SuccessfulActions(h) ==
    IF h = <<>> THEN <<>>
    ELSE IF Head(h).success
    THEN <<Head(h).action>> \o SuccessfulActions(Tail(h))
    ELSE SuccessfulActions(Tail(h))

\* AgentRecipe as saveRecipe builds it
AgentRecipe(actions) == [actions |-> actions, useCount |-> 0]

\* Skill as createSkillFromAgent builds it, with how its save stands
NewSkill(actions, url, state) ==
    [actions |-> actions, startUrl |-> url, useCount |-> 0, state |-> state]

\* the handler that built skill s is waiting for its saveSkill
Saving(s) == IF s = NoSkill THEN FALSE ELSE s.state = "saving"

\* the agent-save-recipe handler: AgentManager.saveRecipe builds the recipe
\* from the agent's history and RecipesManager.saveRecipe writes it (ok) or
\* throws, which the handler answers with success: false
SaveRecipe(ok) ==
    /\ recipe' = IF ok THEN AgentRecipe(SuccessfulActions(actionHistory))
                 ELSE recipe
    /\ UNCHANGED newSkill
    /\ UNCHANGED <<agentVars, tasks, llmReady, maxIterations, goalSignalled, oracleCalls,
                   lastCall, execVars, replayVars, managerVars>>

\* the skill-create-from-agent handler up to `await saveSkill(skill)`:
\* createSkillFromAgent builds the skill; url is currentContext?.url
SkillCreateFromAgent(url) ==
    /\ ~Saving(newSkill)
    /\ newSkill' = NewSkill(SuccessfulActions(actionHistory), url, "saving")
    /\ UNCHANGED recipe
    /\ UNCHANGED <<agentVars, tasks, llmReady, maxIterations, goalSignalled, oracleCalls,
                   lastCall, execVars, replayVars, managerVars>>

\* `await this.skillsManager.saveSkill(skill)` of the handler returns (ok)
\* or throws
NewSkillSaveDone(ok) ==
    /\ Saving(newSkill)
    /\ newSkill' = [newSkill EXCEPT !.state = IF ok THEN "stored" ELSE "failed"]
    /\ UNCHANGED recipe
    /\ UNCHANGED <<agentVars, tasks, llmReady, maxIterations, goalSignalled, oracleCalls,
                   lastCall, execVars, replayVars, managerVars>>

\* -------------------------------------------------------- habits scheduler
\* what no step of a manager beside the agent changes
agentRest == <<agentVars, tasks, llmReady, maxIterations, goalSignalled,
               oracleCalls, execVars, replayVars, recordVars>>
agentSide == <<agentRest, lastCall>>

\* the habits the scheduler is handed by getScheduledHabits and listHabits
Habits == {"h1", "h2"}

\* habit.schedule === undefined, habit.lastSuggestionDate === undefined
NoSchedule == [absent |-> TRUE]
NoDate == -1

\* the calendar days the clock can show in some timezone
Days == 0..((MaxNow + 1) \div DayLen)

\* a HabitsScheduler just constructed over habits with the schedules sch
NewScheduler(sch) ==
    [isRunning |-> FALSE, intervalId |-> FALSE, liveTimers |-> 0, now |-> 0,
     schedule |-> sch,
     lastSuggestionDate |-> [h \in Habits |-> NoDate],
     emitted |-> [h \in Habits |-> [d \in Days |-> 0]]]

\* timezones as offsets in minutes from UTC
Zones == {0, 1}

\* HabitSchedule: hour * 60 + minute is minuteOfDay
Schedules ==
    [timezone : Zones, daysOfWeek : {{0}, {0, 1}}, minuteOfDay : {1},
     windowMinutes : {0, 1}, mode : {"suggest", "autorun"}]

\* getTimeInTimezone(now, timezone): the wall clock of the zone
TimeInTimezone(t, timezone) == t + timezone

\* getTodayString(timezone): the calendar date of the zone
TodayString(t, timezone) == TimeInTimezone(t, timezone) \div DayLen

\* the duplicate check left out
NeverSuggested(last, today) == FALSE

\* `habit.lastSuggestionDate === todayStr`
AlreadySuggested(last, today) == last = today

\* shouldTriggerHabit(habit) at time t, for a habit with schedule sch
ShouldTriggerHabit(sch, last, t) ==
    IF sch = NoSchedule THEN FALSE
    ELSE LET currentTime == TimeInTimezone(t, sch.timezone)
             currentDay == (currentTime \div DayLen) % WeekLen
             currentMinutesSinceMidnight == currentTime % DayLen
             windowStart == sch.minuteOfDay - sch.windowMinutes
             windowEnd == sch.minuteOfDay + sch.windowMinutes
         IN  /\ currentDay \in sch.daysOfWeek
             /\ currentMinutesSinceMidnight >= windowStart
             /\ currentMinutesSinceMidnight <= windowEnd
             /\ ~AlreadySuggested(last, TodayString(t, sch.timezone))

\* the for loop of checkScheduledHabits over the habits still to visit, with
\* triggerHabit inlined: updateLastSuggestion sets the date and writes the
\* habit file, which throws for the habits in failing and ends the check
\* before the event is emitted
RECURSIVE CheckLoop(_, _, _, _)
CheckLoop(order, failing, last, em) ==
    IF order = <<>> THEN [last |-> last, em |-> em, threw |-> FALSE]
    ELSE LET h == Head(order)
             sch == scheduler.schedule[h]
         IN  IF ~ShouldTriggerHabit(sch, last[h], scheduler.now)
             THEN CheckLoop(Tail(order), failing, last, em)
             ELSE LET today == TodayString(scheduler.now, sch.timezone)
                      last2 == [last EXCEPT ![h] = today]
                  IN  IF h \in failing
                      THEN [last |-> last2, em |-> em, threw |-> TRUE]
                      ELSE CheckLoop(Tail(order), failing, last2,
                               [em EXCEPT ![h][today] = @ + 1])

\* getScheduledHabits() in the order listHabits returned them
ScheduledOrders ==
    LET S == {h \in Habits : scheduler.schedule[h] # NoSchedule}
    IN  {o \in UNION {[1..n -> S] : n \in 0..Cardinality(Habits)} :
            /\ Len(o) = Cardinality(S)
            /\ \A i, j \in 1..Len(o) : i # j => o[i] # o[j]}

\* checkScheduledHabits()
CheckScheduledHabits(order, failing) ==
    CheckLoop(order, failing, scheduler.lastSuggestionDate, scheduler.emitted)

\* HabitsScheduler.start()
SchedulerStart(order, failing) ==
    /\ scheduler' =
          IF scheduler.isRunning THEN scheduler
          ELSE LET c == CheckScheduledHabits(order, failing)
               IN  [scheduler EXCEPT
                       !.isRunning = TRUE,
                       !.lastSuggestionDate = c.last,
                       !.emitted = c.em,
                       !.intervalId = IF c.threw THEN @ ELSE TRUE,
                       !.liveTimers = IF c.threw THEN @ ELSE @ + 1]
    /\ UNCHANGED <<agentSide, recorder, habitsManager>>

\* HabitsScheduler.stop()
SchedulerStop ==
    /\ scheduler' =
          [scheduler EXCEPT
              !.liveTimers = IF scheduler.intervalId THEN @ - 1 ELSE @,
              !.intervalId = FALSE,
              !.isRunning = FALSE]
    /\ UNCHANGED <<agentSide, recorder, habitsManager>>

\* the callback of a live setInterval timer runs
TimerFires(order, failing) ==
    /\ scheduler.liveTimers > 0
    /\ LET c == CheckScheduledHabits(order, failing)
       IN  scheduler' = [scheduler EXCEPT !.lastSuggestionDate = c.last,
                                          !.emitted = c.em]
    /\ UNCHANGED <<agentSide, recorder, habitsManager>>

\* a minute passes
MinutePasses ==
    /\ scheduler.now < MaxNow
    /\ scheduler' = [scheduler EXCEPT !.now = @ + 1]
    /\ UNCHANGED <<agentSide, recorder, habitsManager>>

\* ------------------------------------------------------ recording manager
\* session ids generateSessionId can return
Sessions == 1..MaxSessions

\* a RecordingManager just constructed
NewRecorder ==
    [session |-> [s \in Sessions |-> "absent"],
     starting |-> [s \in Sessions |-> FALSE],
     polling |-> [s \in Sessions |-> FALSE],
     pollTimers |-> [s \in Sessions |-> 0]]

\* startPolling(sessionId, tab) on recorder r: a new timer, stored under the
\* session id
StartPolling(r, s) ==
    [r EXCEPT !.pollTimers[s] = @ + 1, !.polling[s] = TRUE]

\* stopPolling(sessionId) on recorder r: the stored timer, if any, is cleared
\* and forgotten
StopPolling(r, s) ==
    IF r.polling[s]
    THEN [r EXCEPT !.pollTimers[s] = @ - 1, !.polling[s] = FALSE]
    ELSE r

\* startRecording up to `await this.injectRecordingScript(activeTab)`; s is
\* the id generateSessionId returns, never used before
StartRecording(s, tabFound) ==
    /\ recorder.session[s] = "absent" /\ ~recorder.starting[s]
    /\ recorder.pollTimers[s] = 0
    /\ \A r \in Sessions :
          r < s => \/ recorder.session[r] # "absent"
                   \/ recorder.starting[r]
                   \/ recorder.pollTimers[r] > 0
    /\ IF ~tabFound
       THEN /\ lastCall' = Threw("startRecording")
            /\ recorder' = recorder
       ELSE /\ lastCall' = lastCall
            /\ recorder' = [recorder EXCEPT !.session[s] = "recording",
                                            !.starting[s] = TRUE]
    /\ UNCHANGED <<agentRest, scheduler, habitsManager>>

\* `await this.injectRecordingScript(activeTab)` returns (Tab.runJs catches
\* every error, so it cannot throw) and startRecording starts polling
InjectDone(s) ==
    /\ recorder.starting[s]
    /\ recorder' = StartPolling([recorder EXCEPT !.starting[s] = FALSE], s)
    /\ lastCall' = Returned
    /\ UNCHANGED <<agentRest, scheduler, habitsManager>>

\* stopRecording(sessionId)
StopRecording(s) ==
    /\ IF recorder.session[s] = "absent"
       THEN /\ lastCall' = Threw("stopRecording")
            /\ recorder' = recorder
       ELSE /\ lastCall' = Returned
            /\ recorder' =
                  StopPolling([recorder EXCEPT !.session[s] = "notRecording"], s)
    /\ UNCHANGED <<agentRest, scheduler, habitsManager>>

\* pauseRecording(sessionId)
PauseRecording(s) ==
    /\ IF recorder.session[s] = "absent"
       THEN /\ lastCall' = Threw("pauseRecording")
            /\ recorder' = recorder
       ELSE /\ lastCall' = Returned
            /\ recorder' =
                  StopPolling([recorder EXCEPT !.session[s] = "notRecording"], s)
    /\ UNCHANGED <<agentRest, scheduler, habitsManager>>

\* resumeRecording(sessionId)
ResumeRecording(s, tabFound) ==
    /\ recorder.pollTimers[s] < MaxTimers
    /\ IF recorder.session[s] = "absent" \/ ~tabFound
       THEN /\ lastCall' = Threw("resumeRecording")
            /\ recorder' = recorder
       ELSE /\ lastCall' = Returned
            /\ recorder' =
                  StartPolling([recorder EXCEPT !.session[s] = "recording"], s)
    /\ UNCHANGED <<agentRest, scheduler, habitsManager>>

\* deleteSession(sessionId)
DeleteSession(s) ==
    /\ recorder' = [StopPolling(recorder, s) EXCEPT !.session[s] = "absent"]
    /\ lastCall' = Returned
    /\ UNCHANGED <<agentRest, scheduler, habitsManager>>

\* ----------------------------------------------------------- habit store
\* ids generateHabitId can return
HabitIds == 1..MaxHabits

\* no entry in the habits map, no file in the habits directory
NoHabit == "none"

\* no entry in the traces map, no file in the traces directory (serial
\* numbers of traces start at 1)
NotCached == <<0>>
NoFile == <<0>>

\* no call has been made
NoCall == [op |-> "none"]

\* a HabitsManager constructed over empty habits and traces directories
NewHabitsManager ==
    [habits |-> [i \in HabitIds |-> NoHabit],
     habitFiles |-> [i \in HabitIds |-> NoHabit],
     habitCall |-> NoCall,
     traces |-> [i \in HabitIds |-> NotCached],
     traceFiles |-> [i \in HabitIds |-> NoFile],
     saved |-> [i \in HabitIds |-> 0]]

\* aliases a caller passes: two that match /^@[a-z0-9\-_]{1,29}$/ and one
\* that does not
GoodAliases == {"@a", "@b"}
BadAlias == "A"
Aliases == GoodAliases \cup {BadAlias}

\* getHabitByAlias returned null
NoId == 0

\* the uniqueness check left out
AliasFree(existing, id) == FALSE

\* `existing && existing.id !== habit.id`
AliasTaken(existing, id) == existing # NoId /\ existing # id

\* getHabitByAlias(alias) over map m and directory d: the id of the first
\* habit of the map with the alias, else that of the first file with it, which
\* is then put into the map; NoId if there is none
GetHabitByAlias(m, d, alias) ==
    IF \E i \in HabitIds : m[i] = alias
    THEN [id |-> CHOOSE i \in HabitIds : m[i] = alias, map |-> m]
    ELSE IF \E i \in HabitIds : d[i] = alias
         THEN LET i == CHOOSE j \in HabitIds : d[j] = alias
              IN  [id |-> i, map |-> [m EXCEPT ![i] = alias]]
         ELSE [id |-> NoId, map |-> m]

\* validateHabit(habit) for a habit with this id and alias whose actions and
\* schedule are valid or not: whether it throws, and the map it leaves
ValidateHabit(id, alias, restValid) ==
    IF alias \notin GoodAliases
    THEN [throws |-> TRUE, map |-> habitsManager.habits]
    ELSE LET g == GetHabitByAlias(habitsManager.habits,
                                  habitsManager.habitFiles, alias)
         IN  [throws |-> AliasTaken(g.id, id) \/ ~restValid, map |-> g.map]

\* saveHabit(habit): id is the id generateHabitId returns, never used before;
\* writeOk: fs.writeFileSync returns rather than throws
SaveHabit(id, alias, restValid, writeOk) ==
    /\ habitsManager.habits[id] = NoHabit
    /\ habitsManager.habitFiles[id] = NoHabit
    /\ LET v == ValidateHabit(id, alias, restValid)
           threw == v.throws \/ ~writeOk
       IN  habitsManager' =
              [habitsManager EXCEPT
                  !.habitCall = [op |-> "saveHabit", id |-> id,
                                 alias |-> alias, threw |-> threw],
                  !.habitFiles = IF threw THEN @ ELSE [@ EXCEPT ![id] = alias],
                  !.habits = IF threw THEN v.map
                             ELSE [v.map EXCEPT ![id] = alias]]
    /\ UNCHANGED <<agentSide, scheduler, recorder>>

\* updateHabit(habitId, updates): alias is the alias of the merged habit,
\* i.e. updates.alias or, without it, the habit's own
UpdateHabit(id, alias, restValid, writeOk) ==
    /\ LET v == ValidateHabit(id, alias, restValid)
           found == habitsManager.habits[id] # NoHabit
           threw == found /\ (v.throws \/ ~writeOk)
       IN  habitsManager' =
              [habitsManager EXCEPT
                  !.habitCall = [op |-> "updateHabit", id |-> id,
                                 alias |-> alias, threw |-> threw],
                  !.habitFiles = IF ~found \/ threw THEN @
                                 ELSE [@ EXCEPT ![id] = alias],
                  !.habits = IF ~found THEN @
                             ELSE IF threw THEN v.map
                             ELSE [v.map EXCEPT ![id] = alias]]
    /\ UNCHANGED <<agentSide, scheduler, recorder>>

\* deleteHabit(habitId); unlinkOk: fs.unlinkSync of the habit file returns
\* rather than throws.  The traces file, if there is one, is unlinked with it
\* and the cached traces are dropped.
DeleteHabit(id, unlinkOk) ==
    /\ LET deleted == habitsManager.habitFiles[id] # NoHabit /\ unlinkOk
           withTraces == deleted /\ habitsManager.traceFiles[id] # NoFile
       IN  habitsManager' =
              [habitsManager EXCEPT
                  !.habitCall = [op |-> "deleteHabit", id |-> id,
                                 alias |-> NoHabit, threw |-> FALSE],
                  !.habitFiles[id] = IF deleted THEN NoHabit ELSE @,
                  !.habits[id] = IF deleted THEN NoHabit ELSE @,
                  !.traceFiles[id] = IF withTraces THEN NoFile ELSE @,
                  !.traces[id] = IF withTraces THEN NotCached ELSE @]
    /\ UNCHANGED <<agentSide, scheduler, recorder>>

\* ----------------------------------------------------------- trace store
\* `traces.slice(0, 10)`
TraceLimit == 10

\* traces.slice(0, TraceLimit)
KeepNewest(list) ==
    IF Len(list) <= TraceLimit THEN list ELSE SubSeq(list, 1, TraceLimit)

\* the saveTrace calls made for the habits 1..n
RECURSIVE TotalSaved(_)
TotalSaved(n) ==
    IF n = 0 THEN 0 ELSE habitsManager.saved[n] + TotalSaved(n - 1)

\* saveTrace(trace) for a trace of habit h, the next one by serial number;
\* the file write is taken to succeed
SaveTrace(h) ==
    /\ TotalSaved(MaxHabits) < MaxSaves
    /\ LET cachedList == IF habitsManager.traces[h] = NotCached THEN <<>>
                         ELSE habitsManager.traces[h]
           list == KeepNewest(<<habitsManager.saved[h] + 1>> \o cachedList)
       IN  habitsManager' = [habitsManager EXCEPT !.traces[h] = list,
                                                  !.traceFiles[h] = list,
                                                  !.saved[h] = @ + 1]
    /\ UNCHANGED <<agentSide, scheduler, recorder>>

\* what getTraces(habitId) returns
Traces(h) ==
    IF habitsManager.traces[h] # NotCached THEN habitsManager.traces[h]
    ELSE IF habitsManager.traceFiles[h] # NoFile
         THEN habitsManager.traceFiles[h]
    ELSE <<>>

\* getTraces(habitId): a list read from the file is cached
GetTraces(h) ==
    /\ habitsManager' =
          IF habitsManager.traces[h] = NotCached
             /\ habitsManager.traceFiles[h] # NoFile
          THEN [habitsManager EXCEPT !.traces[h] = habitsManager.traceFiles[h]]
          ELSE habitsManager
    /\ UNCHANGED <<agentSide, scheduler, recorder>>

\* the application is started again: a new HabitsManager is constructed,
\* which loads the habit files and starts with an empty traces map
Restart ==
    /\ habitsManager' =
          [habitsManager EXCEPT !.habits = habitsManager.habitFiles,
                                !.traces = [i \in HabitIds |-> NotCached]]
    /\ UNCHANGED <<agentSide, scheduler, recorder>>

\* --------------------------------------------------------- specifications
StartStep == \E tabFound \in BOOLEAN : StartAgent(tabFound)
ResumeStep == \E tabFound \in BOOLEAN : ResumeAgent(tabFound)
LoadRecipeStep ==
    \E actions \in Recipes, tabFound \in BOOLEAN : LoadRecipe(actions, tabFound)
CaptureStep == \E t \in BagToSet(tasks), ok \in BOOLEAN : CaptureDone(t, ok)
PlanStep == \E t \in BagToSet(tasks), raw \in RawResponses : PlanDone(t, raw)
ExecStep == \E t \in BagToSet(tasks), ok \in BOOLEAN : ExecDone(t, ok)
WaitStep == \E t \in BagToSet(tasks) : WaitDone(t)
RecipeExecStep == \E t \in BagToSet(tasks), ok \in BOOLEAN : RecipeExecDone(t, ok)
RecipeDelayStep == \E t \in BagToSet(tasks) : RecipeDelayDone(t)

\* an agent made by the agent-create handler, under every interleaving of
\* the lifecycle calls with the steps of its loop tasks
Next ==
    \/ StartStep
    \/ PauseAgent
    \/ ResumeStep
    \/ StopAgent
    \/ CaptureStep
    \/ PlanStep
    \/ ExecStep
    \/ WaitStep

Spec == Init /\ [][Next]_vars

\* the same agent when every await of a loop task eventually returns or
\* throws; the lifecycle calls are made as often or as rarely as the user
\* likes
FairSpec ==
    /\ Init
    /\ [][Next]_vars
    /\ WF_vars(CaptureStep)
    /\ WF_vars(PlanStep)
    /\ WF_vars(ExecStep)
    /\ WF_vars(WaitStep)

\* an uninterrupted run: the agent is started once and its loop is left
\* alone until it ends, with a budget long enough for the give-up rules
RunInit == Created(LongIterations)

RunStart == status = "created" /\ StartStep

RunNext ==
    \/ RunStart
    \/ CaptureStep
    \/ PlanStep
    \/ ExecStep
    \/ WaitStep

RunSpec == RunInit /\ [][RunNext]_vars

\* an agent made by loadRecipe, replaying a recipe under every interleaving
\* of the lifecycle calls
RecipeSpecNext ==
    \/ LoadRecipeStep
    \/ RecipeExecStep
    \/ RecipeDelayStep
    \/ StartStep
    \/ PauseAgent
    \/ ResumeStep
    \/ StopAgent
    \/ CaptureStep
    \/ PlanStep
    \/ ExecStep
    \/ WaitStep

RecipeSpec == Created(RecipeIterations) /\ [][RecipeSpecNext]_vars

\* executeAction calls of one caller, each followed from the call to the
\* recording of its result, against every behaviour of the page host
ExecInit ==
    /\ NewAgent(MaxIterations)
    /\ ExecutorIdle
    /\ ReplayIdle(EmptySkill, FALSE)
    /\ NothingRecorded
    /\ ManagersIdle

CallStep == \E a \in ExecActions : CallExecuteAction(a)
OpStep == \E outcome \in HostOutcomes : OpDone(outcome)
PageLoadStep == \E loaded \in BOOLEAN : PageLoadDone(loaded)

ExecNext ==
    \/ CallStep
    \/ HelperDone
    \/ OpStep
    \/ PageLoadStep
    \/ RetryWaitDone
    \/ ResultRecorded

ExecSpec == ExecInit /\ [][ExecNext]_vars

\* executeSkill calls on one stored skill, one after the other, each
\* followed from the call to its return
ReplayInit ==
    /\ NewAgent(MaxIterations)
    /\ ExecutorIdle
    /\ NothingRecorded
    /\ ManagersIdle
    /\ \E sk \in Skills, alwaysOk \in BOOLEAN : ReplayIdle(sk, alwaysOk)

ExecuteSkillStep ==
    \E opt \in {"true", "false", Missing}, tabFound \in BOOLEAN :
        ExecuteSkill(opt, tabFound)
ActionReturnedStep ==
    /\ replayPc = "exec"
    /\ \E r \in ExecuteActionResults(skill.actions[replayIndex], hostAlwaysSucceeds) :
           ActionReturned(r)
SaveStep == \E ok \in BOOLEAN : SaveDone(ok)

ReplayNext ==
    \/ ExecuteSkillStep
    \/ ActionReturnedStep
    \/ ReplayWaitDone
    \/ SaveStep

ReplaySpec == ReplayInit /\ [][ReplayNext]_vars

\* an uninterrupted run during and after which recipes and skills are
\* recorded from the agent
RecordInit == Created(MaxIterations)

SaveRecipeStep == \E ok \in BOOLEAN : SaveRecipe(ok)
SkillCreateStep == \E url \in {Missing, "given"} : SkillCreateFromAgent(url)
NewSkillSaveStep == \E ok \in BOOLEAN : NewSkillSaveDone(ok)

RecordNext ==
    \/ RunStart
    \/ CaptureStep
    \/ PlanStep
    \/ ExecStep
    \/ WaitStep
    \/ SaveRecipeStep
    \/ SkillCreateStep
    \/ NewSkillSaveStep

RecordSpec == RecordInit /\ [][RecordNext]_vars

\* ================================================================ claims

\* the agent is left as created while a manager is followed
AgentIdle ==
    /\ NewAgent(MaxIterations)
    /\ ExecutorIdle
    /\ ReplayIdle(EmptySkill, FALSE)
    /\ NothingRecorded

\* the habits scheduler over two stored habits, each with a schedule or
\* without, with the clock running over the days
SchedInit ==
    /\ AgentIdle
    /\ \E sch \in [Habits -> Schedules \cup {NoSchedule}] :
           scheduler = NewScheduler(sch)
    /\ recorder = NotConstructed
    /\ habitsManager = NotConstructed

SchedNext ==
    \/ \E order \in ScheduledOrders, failing \in SUBSET Habits :
           SchedulerStart(order, failing)
    \/ SchedulerStop
    \/ \E order \in ScheduledOrders, failing \in SUBSET Habits :
           TimerFires(order, failing)
    \/ MinutePasses

SchedSpec == SchedInit /\ [][SchedNext]_vars

\* a RecordingManager under every sequence of its recording controls
PollInit ==
    /\ AgentIdle
    /\ scheduler = NotConstructed
    /\ recorder = NewRecorder
    /\ habitsManager = NotConstructed

PollNext ==
    \/ \E s \in Sessions, tabFound \in BOOLEAN : StartRecording(s, tabFound)
    \/ \E s \in Sessions : InjectDone(s)
    \/ \E s \in Sessions : StopRecording(s)
    \/ \E s \in Sessions : PauseRecording(s)
    \/ \E s \in Sessions, tabFound \in BOOLEAN : ResumeRecording(s, tabFound)
    \/ \E s \in Sessions : DeleteSession(s)

PollSpec == PollInit /\ [][PollNext]_vars

\* a HabitsManager under every sequence of saveHabit, updateHabit and
\* deleteHabit
HabitInit ==
    /\ AgentIdle
    /\ scheduler = NotConstructed
    /\ recorder = NotConstructed
    /\ habitsManager = NewHabitsManager

HabitNext ==
    \/ \E id \in HabitIds, alias \in Aliases, restValid, writeOk \in BOOLEAN :
           SaveHabit(id, alias, restValid, writeOk)
    \/ \E id \in HabitIds, restValid, writeOk \in BOOLEAN :
           \E alias \in Aliases \cup {habitsManager.habits[id]} :
               UpdateHabit(id, alias, restValid, writeOk)
    \/ \E id \in HabitIds, unlinkOk \in BOOLEAN : DeleteHabit(id, unlinkOk)

HabitSpec == HabitInit /\ [][HabitNext]_vars

\* the trace store of a HabitsManager over application runs
TraceNext ==
    \/ \E h \in HabitIds : SaveTrace(h)
    \/ \E h \in HabitIds : GetTraces(h)
    \/ Restart

TraceSpec == HabitInit /\ [][TraceNext]_vars

\* ---- C1 --------------------------------------------------------------
\* C1: once the status is completed, failed or stopped, no step changes it
\* again.
C1_TerminalIsFinal ==
    [][(status \in TerminalStatuses) => (status' = status)]_vars

\* ---- C2 --------------------------------------------------------------
\* C2: a paused agent is not put back to work by its own loop: the status
\* stays paused until resume, start or stop is called (the iteration in
\* flight may still end the agent as completed or failed).
C2_PausedUntilResumed ==
    [][(status = "paused" /\ status' \notin {"paused", "completed", "failed"})
         => (StartStep \/ ResumeStep \/ StopAgent)]_vars

\* ---- C3 --------------------------------------------------------------
\* C3: at most one iteration-loop task of the agent is alive at any time.
C3_OneLoopTask == NumLoopTasks <= 1

\* ---- C4 --------------------------------------------------------------
\* what C4 requires of a start or resume call made in status st when allowed
\* says whether the call is legal and after says which statuses it may leave
LaunchContract(op, allowed, after) ==
    IF allowed
    THEN /\ lastCall' = Returned
         /\ status' \in after
    ELSE /\ lastCall' = Threw(op)
         /\ UNCHANGED <<agentVars, tasks>>

C5_PauseContract ==
    [][/\ PauseAgent =>
            IF status \in {"planning", "executing"}
            THEN lastCall' = Returned /\ status' = "paused"
            ELSE lastCall' = Threw("pause") /\ UNCHANGED <<agentVars, tasks>>
       /\ (status' = "paused" /\ status # "paused")
            => status \in {"planning", "executing"}]_vars

\* a pause call was refused on a failed agent
C5_Witness == lastCall = Threw("pause") /\ status = "failed"

\* ---- C6 --------------------------------------------------------------
\* C6: stop sets the status to stopped and records completedAt, and after
\* it a loop task that comes back to the loop head starts no further
\* iteration (completedAt still carries the time stop recorded: nothing has
\* completed or failed the agent since).
C6_StopEndsLoop ==
    [][/\ StopAgent => (status' = "stopped" /\ completedAt' = "stopAgent")
       /\ (completedAt = "stopAgent" /\ WaitStep) => iteration' = iteration]_vars

\* ---- C7 --------------------------------------------------------------
LastFiveFailed(h) ==
    /\ Len(h) >= 5
    /\ \A i \in (Len(h) - 4)..Len(h) : ~h[i].success

\* C7: an iteration that begins with the last 5 history entries all failed
\* fails the agent at once: no context capture, oracle call or action is
\* begun and the history is left as it is.
C7_GiveUpAfterFiveFailures ==
    [][(iteration' = iteration + 1 /\ LastFiveFailed(actionHistory))
         => /\ status' = "failed"
            /\ error' = ReasonFiveFailed
            /\ tasks' \sqsubseteq tasks
            /\ actionHistory' = actionHistory]_vars

\* the five-failures rule has failed the agent
C7_Witness ==
    /\ status = "failed" /\ error = ReasonFiveFailed
    /\ LastFiveFailed(actionHistory)

\* ---- C8 --------------------------------------------------------------
LastThreeIdentical(h) ==
    /\ Len(h) >= 3
    /\ \A i \in (Len(h) - 2)..Len(h) :
          /\ h[i].action # NullAction
          /\ h[i].action.type = h[Len(h)].action.type
          /\ h[i].action.parameters = h[Len(h)].action.parameters

\* C8: an iteration that begins with the last 3 history entries carrying the
\* same action kind and parameters fails the agent; and the loop-detection
\* rule fails the agent only then.
C8_LoopDetection ==
    [][/\ (iteration' = iteration + 1 /\ LastThreeIdentical(actionHistory))
            => (status' = "failed" /\ error' \in {ReasonLoop, ReasonFiveFailed})
       /\ (error' = ReasonLoop /\ error # ReasonLoop)
            => LastThreeIdentical(actionHistory)
       /\ (iteration' = iteration + 1 /\ status' = "failed"
           /\ ~LastFiveFailed(actionHistory))
            => LastThreeIdentical(actionHistory)]_vars

\* the loop-detection rule has failed the agent on three identical actions
\* of which one succeeded
C8_Witness ==
    /\ status = "failed" /\ error = ReasonLoop
    /\ LastThreeIdentical(actionHistory)
    /\ \E i \in 1..Len(actionHistory) : actionHistory[i].success

\* ---- C9 --------------------------------------------------------------
\* the run is over: the agent was started and no task is left
RunEnded == status # "created" /\ NumTasks = 0

\* C9: when a run ends in which the oracle never signalled achievement and
\* no give-up rule fired, the agent is failed for having reached the
\* maximum number of iterations.
C9_EndsAtMaxIterations ==
    (RunEnded /\ ~goalSignalled
       /\ error \notin {ReasonFiveFailed, ReasonLoop, ReasonNoTab})
    => (status = "failed" /\ error = ReasonMaxIter /\ iteration = maxIterations)

\* ---- C10 -------------------------------------------------------------
\* oracle texts that cannot be parsed or that break the response contract
BrokenResponses ==
    {raw \in RawResponses :
        /\ raw.stream
        /\ \/ ~raw.json
           \/ ~raw.reasoning
           \/ raw.goalAchieved = "missing"
           \/ ~raw.confidence
           \/ raw.goalAchieved = "false" /\ raw.action \notin Actions}

\* C10: a planning response that fails to parse or breaks the contract does
\* not end the agent: the status stays non-terminal and the loop task lives
\* on to its next iteration.
C10_BrokenResponseIsNotFatal ==
    [][(\E t \in BagToSet(tasks), raw \in BrokenResponses : PlanDone(t, raw))
         => (status' \notin TerminalStatuses /\ NumTasks' = NumTasks)]_vars

\* ---- C11 -------------------------------------------------------------
\* oracle texts that parseResponse reads as goalAchieved: true
AchievingResponses == {raw \in RawResponses : PlanNextAction(raw).goalAchieved}

\* C11: when the planning response signals goalAchieved, that step completes
\* the agent, starts no action (the loop task ends, nothing is added to the
\* history, no action becomes current) and leaves in state.result the
\* payload of the planning response, not some other value.
C11_GoalAchievedCompletes ==
    [][(\E t \in BagToSet(tasks), raw \in AchievingResponses : PlanDone(t, raw))
         => /\ status' = "completed"
            /\ NumTasks' = NumTasks - 1
            /\ actionHistory' = actionHistory
            /\ currentAction' = currentAction
            /\ result' = "planningResponse"]_vars

\* ---- C12 -------------------------------------------------------------
\* C12: whatever the action (malformed ones included) and whatever the page
\* host does, an executeAction call that has ended has returned an
\* ExecutionResult, after at most maxRetries retries; a result that is not a
\* success carries a non-empty error string.
C12_ExecuteActionAlwaysReturns ==
    /\ execPc \in {"idle", "helper", "op", "pageLoad", "retryWait", "returned"}
    /\ retryCount <= MaxRetries
    /\ execPc = "returned" =>
          /\ execResult # NoResult
          /\ execResult.action = execAction
          /\ execResult.success \in BOOLEAN
          /\ ~execResult.success => execResult.error \notin {"", Missing}

\* a call whose validation threw on every attempt has returned a failure
C12_Witness ==
    /\ execPc = "returned"
    /\ execAction.parameters = NoParameters
    /\ ValidateAction(execAction).kind = "throw"
    /\ retryCount = MaxRetries
    /\ ~execResult.success

\* ---- C13 -------------------------------------------------------------
\* the action lacks a required parameter: navigate without url, an action on
\* an element without selector, type without text or with empty text
LacksRequired(a) ==
    /\ a.parameters # NoParameters
    /\ \/ a.type = "navigate" /\ Falsy(a.parameters.url)
       \/ a.type \in SelectorTypes /\ Falsy(a.parameters.selector)
       \/ a.type = "type" /\ Falsy(a.parameters.text)

\* C13: for an action that lacks a required selector, url or text parameter
\* executeAction makes no Page Host call at all and returns success=false.
C13_InvalidActionTouchesNoPage ==
    LacksRequired(execAction) =>
        /\ hostLog = <<>>
        /\ execPc = "returned" => ~execResult.success

\* ---- C14 -------------------------------------------------------------
\* the operation calls (not the helper-script calls) the host has received
OpCalls == {i \in 1..Len(hostLog) : hostLog[i].call = "op"}

\* a valid action whose dispatch is one host operation on parameters.url or
\* parameters.selector, without locator-group list
SingleCallAction(a) ==
    /\ ValidateAction(a) = Returns("null")
    /\ a.parameters # NoParameters
    /\ ~HasLocatorList(a)
    /\ a.type = "navigate" \/ (a.type \in SelectorTypes /\ a.parameters.selector # Missing)

\* C14: when executeAction has returned for a valid single-selector action
\* every host operation of which threw or reported failure, it has made
\* exactly maxRetries+1 attempts, one host operation in each, and the one
\* result it returned is a failure.
C14_RetryBound ==
    (/\ execPc = "returned"
     /\ SingleCallAction(execAction)
     /\ \A i \in OpCalls : ~hostLog[i].success)
    => /\ ~execResult.success
       /\ Cardinality(OpCalls) = MaxRetries + 1
       /\ \A rc \in 0..MaxRetries :
             Cardinality({i \in OpCalls : hostLog[i].attempt = rc}) = 1

\* a click whose host call failed every time has returned
C14_Witness ==
    /\ execPc = "returned"
    /\ execAction.type = "click"
    /\ SingleCallAction(execAction)
    /\ Cardinality(OpCalls) = MaxRetries + 1
    /\ \A i \in OpCalls : ~hostLog[i].success
    /\ ~execResult.success

\* ---- C15 -------------------------------------------------------------
\* C15: every executeAction call the caller has made and got back has added
\* exactly one entry to actionHistory, whatever the number of retries; the
\* entry is the result of the final attempt: a success only if no earlier
\* attempt had succeeded, a failure only if no attempt succeeded.
C15_OneHistoryEntryPerCall ==
    /\ Len(actionHistory) = IF execPc = "idle" THEN execCalls ELSE execCalls - 1
    /\ (execPc = "idle" /\ execCalls > 0) =>
          LET entry == actionHistory[Len(actionHistory)]
          IN  /\ entry = execResult
              /\ entry.action = execAction
              /\ \A i \in OpCalls :
                    hostLog[i].success =>
                        (entry.success /\ hostLog[i].attempt = retryCount)

\* two calls have been made and recorded, the second one succeeding on a
\* retry after a failed attempt
C15_Witness ==
    /\ execPc = "idle"
    /\ execCalls = 2
    /\ Len(actionHistory) = 2
    /\ retryCount > 0
    /\ actionHistory[2].success
    /\ \E i \in OpCalls : ~hostLog[i].success

\* ---- C16 -------------------------------------------------------------
\* candidate p comes before candidate q in list order: an earlier group, or
\* earlier in the same group
Before(p, q) == p[1] < q[1] \/ (p[1] = q[1] /\ p[2] < q[2])

\* C16: in every dispatch (attempt) of a click or type action with a
\* locator-group list the candidates are tried in list order without leaving
\* one out, and no candidate is tried after one whose operation succeeded.
C16_FirstSuccessEndsResolution ==
    HasLocatorList(execAction) =>
        \A j \in OpCalls :
            /\ \A i \in OpCalls :
                  (i < j /\ hostLog[i].attempt = hostLog[j].attempt)
                      => /\ ~hostLog[i].success
                         /\ Before(hostLog[i].selector, hostLog[j].selector)
            /\ \A q \in After(execAction.parameters.selectors, <<0, 0>>) :
                  Before(q, hostLog[j].selector)
                      => \E i \in OpCalls :
                            /\ i < j
                            /\ hostLog[i].attempt = hostLog[j].attempt
                            /\ hostLog[i].selector = q

\* a dispatch has succeeded on the second candidate of the first group while
\* a later group was still to come
C16_Witness ==
    /\ execPc = "returned"
    /\ HasLocatorList(execAction)
    /\ execResult.success
    /\ Len(execAction.parameters.selectors) = 2
    /\ Len(execAction.parameters.selectors[2]) > 0
    /\ hostLog[Len(hostLog)].selector = <<1, 2>>
    /\ hostLog[Len(hostLog)].success

\* ---- C17 -------------------------------------------------------------
\* results rs are the results of the first Len(rs) actions of the skill
ResultsOfPrefix(rs) ==
    /\ Len(rs) <= Len(skill.actions)
    /\ \A i \in 1..Len(rs) : rs[i].action = skill.actions[i]

\* C17: in a replay with continueOnError false or unset, a failing result is
\* the last one: once it is recorded no further action is executed, and the
\* call returns success=false with executedActions being the results of the
\* list prefix up to and including the failing action.
C17_StopsAtFirstFailure ==
    (continueOnError # "true" /\ replayPc \in {"exec", "wait", "save", "returned"})
    => /\ \A i \in 1..(Len(executedActions) - 1) : executedActions[i].success
       /\ ResultsOfPrefix(executedActions)
       /\ (\E i \in 1..Len(executedActions) : ~executedActions[i].success)
             => /\ replayPc \in {"save", "returned"}
                /\ replayPc = "returned" =>
                      /\ ~skillResult.success
                      /\ skillResult.executedActions = executedActions

\* a replay that was not told to continue has returned after the first of
\* two actions failed
C17_Witness ==
    /\ replayPc = "returned"
    /\ continueOnError = "false"
    /\ Len(skill.actions) = 2
    /\ Len(skillResult.executedActions) = 1
    /\ ~skillResult.executedActions[1].success
    /\ ~skillResult.success

\* ---- C18 -------------------------------------------------------------
\* the error of the last failing result of rs, absent when none failed
LastFailureError(rs) ==
    LET failing == {i \in 1..Len(rs) : ~rs[i].success}
    IN  IF failing = {} THEN Missing
        ELSE rs[CHOOSE i \in failing : \A j \in failing : j <= i].error

\* C18: a replay with continueOnError true executes every action of the
\* list, returns success=true even when some of them failed, and reports the
\* error of the last failing action (none when no action failed).
C18_ContinueOnErrorRunsAll ==
    (continueOnError = "true" /\ replayPc = "returned")
    => /\ Len(skillResult.executedActions) = Len(skill.actions)
       /\ ResultsOfPrefix(skillResult.executedActions)
       /\ skillResult.success
       /\ skillResult.error = LastFailureError(skillResult.executedActions)

\* ---- C19 -------------------------------------------------------------
\* C19: a replay executes the actions strictly in list order and one at a
\* time: the i-th recorded result is the result of the i-th action, the
\* action in flight is the one after the recorded ones, and a result is
\* appended only by the return of that action.
C19_ReplayInListOrder ==
    (replayPc \in {"exec", "wait", "save", "returned"})
    => /\ ResultsOfPrefix(executedActions)
       /\ replayPc = "exec" => replayIndex = Len(executedActions) + 1
       /\ replayPc = "wait" => replayIndex = Len(executedActions)
       /\ (replayPc = "returned" /\ skill.startUrl = Missing)
             => skillResult.executedActions = executedActions

\* a replay of two different actions has returned both results
C19_Witness ==
    /\ replayPc = "returned"
    /\ Len(skill.actions) = 2
    /\ skill.actions[1] # skill.actions[2]
    /\ Len(skillResult.executedActions) = 2
    /\ skillResult.executedActions[2].action = skill.actions[2]

\* ---- C20 -------------------------------------------------------------
\* C20: two replays of the same skill of well-formed actions with
\* continueOnError true against a host on which every action succeeds return executedActions lists of the
\* same length, the length of the action list, in which every result is a
\* success.
C20_ReplayTwiceSameResults ==
    (/\ hostAlwaysSucceeds
     /\ \A i \in 1..Len(skill.actions) :
           ValidateAction(skill.actions[i]).value = "null"
     /\ replayPc = "returned"
     /\ continueOnError = "true"
     /\ Len(earlierResults) = 1
     /\ earlierResults[1].continueOnError = "true"
     /\ earlierResults[1].result # NoResult)
    => \A res \in {earlierResults[1].result, skillResult} :
          /\ Len(res.executedActions) = Len(skill.actions)
          /\ \A i \in 1..Len(res.executedActions) : res.executedActions[i].success

\* ---- C21 -------------------------------------------------------------
\* the first iteration executed a click that succeeded and the second
\* iteration's oracle answer signalled goalAchieved
ClickThenAchieved ==
    /\ goalSignalled
    /\ iteration = 2
    /\ Len(actionHistory) >= 1
    /\ actionHistory[1].success
    /\ actionHistory[1].action.type = "click"

\* C21: when the oracle answers a click and then goalAchieved and the click
\* succeeds, the started agent has ended with status completed and an
\* actionHistory of exactly one result, which is a success.
C21_ClickThenAchievedCompletes ==
    ClickThenAchieved
    => /\ status = "completed"
       /\ tasks = EmptyBag
       /\ Len(actionHistory) = 1
       /\ actionHistory[1].success

\* the run of scenario A has ended
C21_Witness ==
    /\ ClickThenAchieved
    /\ status = "completed"
    /\ Len(actionHistory) = 1
    /\ completedAt = "completeAgent"

\* ---- C22 -------------------------------------------------------------
\* a host call of the attempt that produced the result ran into its
\* timeout: the page load of a navigate, the wait of a wait_for_element
\* (the helper answers failure), or the script execution of Tab.runJs (it
\* answers null)
TimedOut(e) ==
    /\ e.attempt = retryCount
    /\ ~e.success
    /\ \/ e.call = "pageLoad"
       \/ e.call = "op" /\ execAction.type = "wait_for_element"

\* C22: an executeAction call whose final attempt ran into a per-operation
\* timeout returns success=false.
C22_TimeoutsAreFailures ==
    (execPc = "returned" /\ \E i \in 1..Len(hostLog) : TimedOut(hostLog[i]))
    => ~execResult.success

\* ---- C23 -------------------------------------------------------------
\* the positions of the successful entries of history h
SuccessIndices(h) == {i \in 1..Len(h) : h[i].success}

\* the k-th smallest element of the set of positions idx
Nth(idx, k) == CHOOSE i \in idx : Cardinality({j \in idx : j <= i}) = k

\* as lists the actions of the successful entries of h, in history order
IsSuccessfulSubsequence(as, h) ==
    /\ Len(as) = Cardinality(SuccessIndices(h))
    /\ \A k \in 1..Len(as) : as[k] = h[Nth(SuccessIndices(h), k)].action

\* C23: a recipe or skill created from the agent holds exactly the actions
\* of the successful entries of the agent's actionHistory at that moment, in
\* history order.
C23_RecordsSuccessfulActions ==
    [][/\ (recipe' # recipe)
          => IsSuccessfulSubsequence(recipe'.actions, actionHistory)
       /\ (~Saving(newSkill) /\ Saving(newSkill'))
          => IsSuccessfulSubsequence(newSkill'.actions, actionHistory)]_vars

\* a recipe and a skill were recorded from a history that has a failed entry
\* before a successful one
C23_Witness ==
    /\ Len(actionHistory) >= 2
    /\ ~actionHistory[1].success
    /\ actionHistory[2].success
    /\ recipe # NoRecipe
    /\ Len(recipe.actions) >= 1
    /\ newSkill # NoSkill
    /\ Len(newSkill.actions) >= 1

\* ---- C24 -------------------------------------------------------------
\* the executeSkill calls that have returned a result so far
ReturnedReplays ==
    Cardinality({i \in 1..Len(earlierResults) : earlierResults[i].result # NoResult})
    + (IF replayPc = "returned" THEN 1 ELSE 0)

\* C24: between two replays the skill's useCount equals the number of
\* replays that returned a result, whether they succeeded, failed on an
\* action or failed while navigating to the start URL.
C24_UseCountCountsReplays ==
    (replayPc \in {"idle", "returned", "threw"}) => useCount = ReturnedReplays

\* ---- C25 -------------------------------------------------------------
\* a step of the loop task that records a result although no executeAction
\* call was in flight: the catch block of the loop body ran
CatchRan ==
    /\ Len(actionHistory') = Len(actionHistory) + 1
    /\ \A t \in BagToSet(tasks) : t.pc # "exec"

\* C25: when an exception is caught in a pass of the loop body, exactly one
\* failed result is appended, attributed to the in-flight action or to a
\* placeholder action when none was in flight (never to a null action),
\* currentAction is cleared, the agent is not ended and the loop task goes on
\* to its next condition check.
C25_CaughtErrorIsRecorded ==
    [][CatchRan =>
          /\ SubSeq(actionHistory', 1, Len(actionHistory)) = actionHistory
          /\ ~actionHistory'[Len(actionHistory')].success
          /\ actionHistory'[Len(actionHistory')].action # NullAction
          /\ currentAction # NullAction
                => actionHistory'[Len(actionHistory')].action = currentAction
          /\ currentAction' = NullAction
          /\ status' = status
          /\ \E t \in BagToSet(tasks') : t.pc = "wait"]_vars

\* ---- C26 -------------------------------------------------------------
\* the loop tasks waiting for their executeAction call
ExecTasks(ts) == {t \in BagToSet(ts) : t.pc = "exec"}
NumExecTasks(ts) == BagCardinality([t \in ExecTasks(ts) |-> ts[t]])

\* C26: the step in which an executeAction call of the loop returns appends
\* its result, success or failure, to actionHistory (one entry more, for the
\* action that was in flight) and leaves currentAction null; no step of the
\* agent's life, pause and resume included, removes or changes an entry.
C26_HistoryIsAppendOnly ==
    [][/\ Len(actionHistory') >= Len(actionHistory)
       /\ SubSeq(actionHistory', 1, Len(actionHistory)) = actionHistory
       /\ (NumExecTasks(tasks') < NumExecTasks(tasks))
          => /\ Len(actionHistory') = Len(actionHistory) + 1
             /\ \E t \in ExecTasks(tasks) :
                   actionHistory'[Len(actionHistory')].action = t.action
             /\ currentAction' = NullAction]_vars

\* a failed and a successful result of planned actions are in the history
\* of an agent that is paused
C26_Witness ==
    /\ Len(actionHistory) >= 2
    /\ ~actionHistory[1].success
    /\ actionHistory[1].action # NullAction
    /\ actionHistory[2].success
    /\ currentAction = NullAction
    /\ status = "paused"

\* ---- C27 -------------------------------------------------------------
\* the loop tasks waiting for the delay that precedes the while check
NumWaitTasks(ts) ==
    BagCardinality([t \in {u \in BagToSet(ts) : u.pc = "wait"} |-> ts[t]])

\* C27: a pause or stop call leaves the loop tasks, the history and
\* currentAction alone; an executeAction call that returns while the agent is
\* paused or stopped still has its result appended and its task goes on to
\* the delay before the while check; only that check, reading paused or
\* stopped, ends the task without beginning another pass.
C27_PauseStopAreCooperative ==
    [][/\ (status' \in {"paused", "stopped"} /\ status' # status)
          => /\ tasks' = tasks
             /\ actionHistory' = actionHistory
             /\ currentAction' = currentAction
       /\ (status \in {"paused", "stopped"}
           /\ NumExecTasks(tasks') < NumExecTasks(tasks))
          => /\ Len(actionHistory') = Len(actionHistory) + 1
             /\ \E t \in ExecTasks(tasks) :
                   actionHistory'[Len(actionHistory')].action = t.action
             /\ NumWaitTasks(tasks') = NumWaitTasks(tasks) + 1
             /\ status' = status
       /\ (status \in {"paused", "stopped"}
           /\ NumWaitTasks(tasks') < NumWaitTasks(tasks))
          => /\ NumTasks' = NumTasks - 1
             /\ iteration' = iteration
             /\ actionHistory' = actionHistory]_vars

\* pause was called while an action is in flight
C27_Witness ==
    /\ status = "paused"
    /\ NumExecTasks(tasks) = 1
    /\ NumTasks = 1
    /\ \E t \in ExecTasks(tasks) : currentAction = t.action

\* ---- C28 -------------------------------------------------------------
\* validateAction returns an error for action a
ValidationFails(a) ==
    /\ a # NoAction
    /\ ValidateAction(a).kind = "return"
    /\ ValidateAction(a).value # "null"

\* C28: an executeAction call on an action for which validateAction returns
\* an error never waits for a retry and never reaches the page host: it
\* returns on its first attempt (retryCount 0) the failed result that
\* carries the validation error.
C28_ValidationFailureIsNotRetried ==
    ValidationFails(execAction)
    => /\ execPc \in {"idle", "returned"}
       /\ retryCount = 0
       /\ hostLog = <<>>
       /\ execResult = CreateErrorResult(execAction, ValidateAction(execAction).value)

\* a click without selector has been answered while retries were allowed
C28_Witness ==
    /\ execPc = "returned"
    /\ execAction.type = "click"
    /\ ValidationFails(execAction)
    /\ RetryAllowed(retryCount)
    /\ ~execResult.success
    /\ execResult.error = "Selector is required"

FinalOps == {i \in 1..Len(hostLog) :
                hostLog[i].call = "op" /\ hostLog[i].attempt = retryCount}

\* all candidates of the locator-group list of action a
Candidates(a) == After(a.parameters.selectors, <<0, 0>>)

\* a valid click or type action that reached its dispatch
Dispatched(a) ==
    /\ a.type \in {"click", "type"}
    /\ a.parameters # NoParameters
    /\ ValidateAction(a).value = "null"

\* C30: a click or type action with a non-empty locator-group list never
\* operates on its single selector field, and when its dispatch fails, every
\* candidate of every group having failed or thrown, the result's error is
\* "All selector strategies failed"; without a locator-group list the
\* dispatch operates on the single selector field only.
C30_NoFallbackAfterLocatorList ==
    Dispatched(execAction)
    => IF HasLocatorList(execAction)
       THEN /\ \A i \in 1..Len(hostLog) :
                  hostLog[i].call = "op" => hostLog[i].selector # <<0, 0>>
            /\ (execPc = "returned" /\ ~execResult.success)
               => /\ execResult.error = "All selector strategies failed"
                  /\ {hostLog[i].selector : i \in FinalOps} = Candidates(execAction)
                  /\ \A i \in FinalOps : ~hostLog[i].success
       ELSE \A i \in 1..Len(hostLog) :
               hostLog[i].call = "op" => hostLog[i].selector = <<0, 0>>

\* a click whose two groups of candidates all failed has been answered
C30_Witness ==
    /\ execPc = "returned"
    /\ Dispatched(execAction)
    /\ HasLocatorList(execAction)
    /\ Len(execAction.parameters.selectors) = 2
    /\ Cardinality(Candidates(execAction)) >= 3
    /\ Cardinality(FinalOps) = Cardinality(Candidates(execAction))
    /\ execResult.error = "All selector strategies failed"

\* ---- C31 -------------------------------------------------------------
\* C31: iteration stays between 0 and maxIterations, no step (pause and
\* resume included) decreases or resets it, and the planning oracle has been
\* called at most once per counted iteration, so at most maxIterations times
\* over the agent's life.
C31_IterationBudget ==
    [][/\ 0 <= iteration' /\ iteration' <= maxIterations
       /\ iteration' >= iteration
       /\ oracleCalls' <= iteration'
       /\ oracleCalls' <= maxIterations]_vars

\* the whole budget was spent on oracle calls by an agent that was paused
\* and resumed: two loop tasks are alive
C31_Witness ==
    /\ oracleCalls = maxIterations
    /\ iteration = maxIterations
    /\ NumLoopTasks = 2

\* ---- C32 -------------------------------------------------------------
\* no loop task is alive and the status is neither planning nor executing
AtRest ==
    /\ tasks = EmptyBag
    /\ status \notin {"planning", "executing"}

\* C32: when every await of the loop returns or throws, the agent eventually
\* comes to rest for good: no loop task is left and the status is completed,
\* failed, stopped or paused (created if it was never started).
C32_EventuallyAtRest == <>[]AtRest

\* a started agent has come to rest after using its whole budget
C32_Witness ==
    /\ AtRest
    /\ status = "failed"
    /\ error = ReasonMaxIter
    /\ iteration = maxIterations
    /\ Len(actionHistory) = maxIterations

\* ---- C33 -------------------------------------------------------------
NoTask == [pc |-> "none"]

\* the task of executeRecipe, if it is alive (loadRecipe makes the agent and
\* calls executeRecipe once)
RecipeTask(ts) ==
    IF \E t \in BagToSet(ts) : t.pc \in {"rexec", "rdelay"}
    THEN CHOOSE t \in BagToSet(ts) : t.pc \in {"rexec", "rdelay"}
    ELSE NoTask

\* C33: when executeAction returns in executeRecipe, successfully or not,
\* exactly one entry for the action is appended and the replay goes on to its
\* delay; after the delay, with the agent neither paused nor stopped, the next
\* action of the list is started; with the agent paused or stopped no recipe
\* action is started.
C33_ReplayInOrder ==
    [][LET t == RecipeTask(tasks)
           u == RecipeTask(tasks')
       IN  /\ (t.pc = "rexec" /\ u # t) =>
                 /\ Len(actionHistory') = Len(actionHistory) + 1
                 /\ actionHistory'[Len(actionHistory')].action = t.action
                 /\ SubSeq(actionHistory', 1, Len(actionHistory)) = actionHistory
                 /\ u = Task("rdelay", NullAction, t.rest)
           /\ (t.pc = "rdelay" /\ u # t /\ status \notin {"paused", "stopped"}
                 /\ t.rest # <<>>) =>
                 u = Task("rexec", Head(t.rest), Tail(t.rest))
           /\ (status \in {"paused", "stopped"} /\ u # t) => u.pc # "rexec"
      ]_vars

\* a replay of two actions went on after its first action failed
C33_Witness ==
    /\ Len(actionHistory) = 2
    /\ ~actionHistory[1].success
    /\ RecipeTask(tasks).pc = "rdelay"
    /\ iteration = 0

\* ---- C34 -------------------------------------------------------------
\* C34: the scheduler emits at most one suggestion/autorun event per habit
\* and calendar day of the habit's timezone; a step that emits for a habit
\* has recorded today's date as its lastSuggestionDate; a habit whose
\* lastSuggestionDate is today gets no event; at most one timer is alive.
C34_OncePerDay ==
    [][/\ \A h \in Habits :
            LET sch == scheduler.schedule[h]
            IN  /\ \A d \in Days : scheduler'.emitted[h][d] <= 1
                /\ scheduler'.emitted[h] # scheduler.emitted[h] =>
                      /\ sch # NoSchedule
                      /\ scheduler'.lastSuggestionDate[h] =
                            TodayString(scheduler.now, sch.timezone)
                /\ (IF sch = NoSchedule THEN FALSE
                    ELSE scheduler.lastSuggestionDate[h] =
                            TodayString(scheduler.now, sch.timezone))
                   => scheduler'.emitted[h] = scheduler.emitted[h]
       /\ scheduler'.liveTimers <= 1
       /\ (scheduler.isRunning => scheduler'.liveTimers <= scheduler.liveTimers)
      ]_vars

\* a habit got its event on two days, and the scheduler, started again after
\* a stop, is checking inside the window of the second day
C34_Witness ==
    /\ \E h \in Habits :
          /\ scheduler.schedule[h] # NoSchedule
          /\ scheduler.emitted[h][0] = 1
          /\ \E d \in Days :
                /\ d > 0 /\ scheduler.emitted[h][d] = 1
                /\ scheduler.lastSuggestionDate[h] = d
                /\ TodayString(scheduler.now, scheduler.schedule[h].timezone) = d
    /\ scheduler.liveTimers = 1
    /\ scheduler.isRunning

\* ---- C35 -------------------------------------------------------------
\* C35: once startRecording has settled, a session that is recording has
\* exactly one live polling timer and a session that is paused, stopped or
\* deleted has none.
C35_OneTimerWhileRecording ==
    \A s \in Sessions :
        ~recorder.starting[s] =>
            recorder.pollTimers[s] =
                (IF recorder.session[s] = "recording" THEN 1 ELSE 0)

\* ---- C36 -------------------------------------------------------------
\* no two entries of m hold the same alias
UniqueAliases(m) ==
    \A i, j \in HabitIds : (i # j /\ m[i] # NoHabit) => m[i] # m[j]

\* the call c was a saveHabit, or an updateHabit of an existing habit, whose
\* alias another habit of map m held
WouldDuplicate(c, m) ==
    /\ c.op \in {"saveHabit", "updateHabit"}
    /\ c.op = "updateHabit" => m[c.id] # NoHabit
    /\ \E i \in HabitIds : i # c.id /\ m[i] = c.alias

\* C36: no two habits of the map and no two habit files share an alias; a
\* saveHabit or updateHabit that would duplicate an alias throws, and a call
\* that throws leaves the map and the files as they were.
C36_AliasesUnique ==
    [][LET c == habitsManager'.habitCall
       IN  /\ UniqueAliases(habitsManager'.habits)
           /\ UniqueAliases(habitsManager'.habitFiles)
           /\ IF c.op = "none" THEN TRUE
              ELSE /\ WouldDuplicate(c, habitsManager.habits) => c.threw
                   /\ c.threw =>
                        /\ habitsManager'.habits = habitsManager.habits
                        /\ habitsManager'.habitFiles = habitsManager.habitFiles
      ]_vars

\* two habits are stored and the last call, which asked for the alias of one
\* for the other, threw
C36_Witness ==
    LET c == habitsManager.habitCall
    IN  /\ c.op = "updateHabit"
        /\ c.threw
        /\ habitsManager.habits[c.id] \in GoodAliases
        /\ c.alias \in GoodAliases
        /\ c.alias # habitsManager.habits[c.id]
        /\ \E i \in HabitIds : i # c.id /\ habitsManager.habits[i] = c.alias
        /\ habitsManager.habitFiles = habitsManager.habits

\* ---- C37 -------------------------------------------------------------
\* the serial numbers of the TraceLimit traces saved last for h, newest first
NewestSaved(h) ==
    LET k == habitsManager.saved[h]
        n == IF k <= TraceLimit THEN k ELSE TraceLimit
    IN  [i \in 1..n |-> k - i + 1]

\* C37: each habit holds exactly the 10 traces saved last for it (all of
\* them if fewer were saved), newest first.
C37_TenNewestTraces ==
    \A h \in HabitIds : Traces(h) = NewestSaved(h)

====
